---- MODULE Spec2Model ----
(***************************************************************************)
(* Model of the ComfyUI node-finder data pipeline:                         *)
(*   fetch_data.py, fetch_registry.py, fetch_readmes.py and                *)
(*   generate_summaries.py.                                                *)
(*                                                                         *)
(* Text is a sequence of one-character strings, positions are 1-based      *)
(* (Python's are 0-based; where the code compares an index with a number   *)
(* the model converts explicitly).                                         *)
(***************************************************************************)
EXTENDS Integers, Sequences, FiniteSets, TLC

(***************************************************************************)
(* Characters                                                              *)
(***************************************************************************)
UpperLetters == <<"A","B","C","D","E","F","G","H","I","J","K","L","M",
                  "N","O","P","Q","R","S","T","U","V","W","X","Y","Z">>

LowerLetters == <<"a","b","c","d","e","f","g","h","i","j","k","l","m",
                  "n","o","p","q","r","s","t","u","v","w","x","y","z">>

Digits == {"0","1","2","3","4","5","6","7","8","9"}

Letters == {UpperLetters[i] : i \in 1..26} \cup {LowerLetters[i] : i \in 1..26}

\* Python's \s on the characters the model uses.
Whitespace == {" ", "\n", "\t", "\r"}

UpperToLower ==
  [c \in {UpperLetters[i] : i \in 1..26} |->
     LowerLetters[CHOOSE i \in 1..26 : UpperLetters[i] = c]]

\* str.lower() on one character.
LowerChar(c) == IF c \in DOMAIN UpperToLower THEN UpperToLower[c] ELSE c

\* str.lower()
Lower(s) == [i \in 1..Len(s) |-> LowerChar(s[i])]

Min(S) == CHOOSE x \in S : \A y \in S : x <= y

Max(S) == CHOOSE x \in S : \A y \in S : x >= y

\* The character at position i, "" outside the text.
Chr(s, i) == IF i >= 1 /\ i <= Len(s) THEN s[i] ELSE ""

\* The first position >= p holding a character of C; Len(s)+1 when none.
FirstIn(s, p, C) == Min({k \in p..Len(s) : s[k] \in C} \cup {Len(s) + 1})

\* The first position >= p holding a character outside C; Len(s)+1 when none.
FirstNotIn(s, p, C) == Min({k \in p..Len(s) : s[k] \notin C} \cup {Len(s) + 1})

\* Whether lit occurs in s at position i.
HasAt(s, i, lit) ==
  /\ i >= 1
  /\ i + Len(lit) - 1 <= Len(s)
  /\ \A k \in 1..Len(lit) : s[i + k - 1] = lit[k]

\* str.endswith
EndsWith(s, lit) == Len(s) >= Len(lit) /\ HasAt(s, Len(s) - Len(lit) + 1, lit)

\* The regex anchor ^ under re.MULTILINE.
AtLineStart(s, i) == i = 1 \/ Chr(s, i - 1) = "\n"

(***************************************************************************)
(* re.sub: the leftmost non-overlapping matches are replaced, scanning     *)
(* from p.  ends[i] is the position after the match that starts at i (0:   *)
(* no match at i); repl[i] is the text that replaces it.  No pattern of    *)
(* the program matches the empty text.                                     *)
(***************************************************************************)
RECURSIVE SubFrom(_, _, _, _)
SubFrom(s, ends, repl, p) ==
  LET starts == {i \in p..Len(s) : ends[i] # 0}
  IN  IF starts = {}
      THEN SubSeq(s, p, Len(s))
      ELSE LET i == Min(starts)
           IN  SubSeq(s, p, i - 1) \o repl[i] \o SubFrom(s, ends, repl, ends[i])

Sub(s, ends, repl) == SubFrom(s, ends, repl, 1)

Blank == <<" ">>

Nothing == <<>>

(***************************************************************************)
(* Repo identity resolver                                                  *)
(***************************************************************************)
GithubMarker == <<"g","i","t","h","u","b",".","c","o","m","/">>

DotGit == <<".","g","i","t">>

NoRepo == [found |-> FALSE]

\* A variant that keeps the suffix.
KeepDotGit(repo) == repo

\* if repo.endswith('.git'): repo = repo[:-4]
StripDotGit(repo) ==
  IF EndsWith(repo, DotGit) THEN SubSeq(repo, 1, Len(repo) - 4) ELSE repo

\* fetch_data.get_repo_path / fetch_readmes.get_repo_path:
\* re.search(r'github\.com/([^/]+)/([^/]+)', url), then the .git suffix is cut.
get_repo_path(url) ==
  LET OwnerEnd(i) == FirstIn(url, i + 11, {"/"})
      Matches(i) ==
        /\ HasAt(url, i, GithubMarker)
        /\ OwnerEnd(i) > i + 11
        /\ OwnerEnd(i) < Len(url)
        /\ url[OwnerEnd(i) + 1] # "/"
      starts == {i \in 1..Len(url) : Matches(i)}
  IN  IF url = <<>> \/ starts = {}
      THEN NoRepo
      ELSE LET i == Min(starts)
               o == OwnerEnd(i)
               r == FirstIn(url, o + 1, {"/"})
               repo == SubSeq(url, o + 1, r - 1)
           IN  [found |-> TRUE,
                owner |-> SubSeq(url, i + 11, o - 1),
                name  |-> StripDotGit(repo)]

\* f"{parts[0]}/{parts[1]}"
FullName(parts) == parts.owner \o <<"/">> \o parts.name

\* f"{parts[0]}/{parts[1]}".lower()
RepoKey(parts) == Lower(FullName(parts))

NoKey == <<>>

\* fetch_registry.normalize_repo_url:
\* re.search(r'github\.com/([^/]+)/([^/\s\.]+)', url.lower()); None is NoKey.
normalize_repo_url(url) ==
  LET u == Lower(url)
      OwnerEnd(i) == FirstIn(u, i + 11, {"/"})
      Matches(i) ==
        /\ HasAt(u, i, GithubMarker)
        /\ OwnerEnd(i) > i + 11
        /\ OwnerEnd(i) < Len(u)
        /\ u[OwnerEnd(i) + 1] \notin ({"/", "."} \cup Whitespace)
      starts == {i \in 1..Len(u) : Matches(i)}
  IN  IF url = <<>> \/ starts = {}
      THEN NoKey
      ELSE LET i == Min(starts)
               o == OwnerEnd(i)
               r == FirstIn(u, o + 1, {"/", "."} \cup Whitespace)
               repo == SubSeq(u, o + 1, r - 1)
               cut == StripDotGit(repo)
           IN  SubSeq(u, i + 11, o - 1) \o <<"/">> \o cut

(***************************************************************************)
(* Text sanitizer (fetch_readmes.py)                                       *)
(***************************************************************************)
MAX_README_CHARS == 2000

TruncateMargin == 100

MinReadmeChars == 50

FirstNotSpace(s, p) == FirstNotIn(s, p, Whitespace)

\* Whether s[a..b] holds no line break (the regex "." does not match one).
NoNewline(s, a, b) == \A k \in a..b : s[k] # "\n"

EndsOf(s, MatchEnd(_, _)) == [i \in 1..Len(s) |-> MatchEnd(s, i)]

ConstRepl(s, r) == [i \in 1..Len(s) |-> r]

\* <[^>]+>
HtmlTagEnd(s, i) ==
  LET k == FirstIn(s, i + 1, {">"})
  IN  IF Chr(s, i) = "<" /\ k >= i + 2 /\ k <= Len(s) THEN k + 1 ELSE 0

\* !\[[^\]]*\]\([^)]+\)
ImageEnd(s, i) ==
  LET k == FirstIn(s, i + 2, {"]"})
      m == FirstIn(s, k + 2, {")"})
  IN  IF /\ Chr(s, i) = "!" /\ Chr(s, i + 1) = "["
         /\ k <= Len(s) /\ Chr(s, k + 1) = "("
         /\ m >= k + 3 /\ m <= Len(s)
      THEN m + 1 ELSE 0

\* \[([^\]]+)\]\([^)]+\)
LinkEnd(s, i) ==
  LET k == FirstIn(s, i + 1, {"]"})
      m == FirstIn(s, k + 2, {")"})
  IN  IF /\ Chr(s, i) = "["
         /\ k >= i + 2 /\ k <= Len(s) /\ Chr(s, k + 1) = "("
         /\ m >= k + 3 /\ m <= Len(s)
      THEN m + 1 ELSE 0

\* group 1 of the link pattern
LinkText(s, i) == SubSeq(s, i + 1, FirstIn(s, i + 1, {"]"}) - 1)

\* \[!\[.*?\]\(.*?\)\]\(.*?\) : each lazy .*? takes the shortest run without
\* a line break that lets the rest of the pattern match.
BadgeEnd(s, i) ==
  LET CEnd(p) ==
        LET c == FirstIn(s, p, {")", "\n"})
        IN  IF Chr(s, c) = ")" THEN c ELSE 0
      Bs(a) == {b \in (a + 2)..Len(s) :
                  /\ HasAt(s, b, <<")", "]", "(">>)
                  /\ NoNewline(s, a + 2, b - 1)
                  /\ CEnd(b + 3) # 0}
      As == {a \in (i + 3)..Len(s) :
               /\ HasAt(s, a, <<"]", "(">>)
               /\ NoNewline(s, i + 3, a - 1)
               /\ Bs(a) # {}}
  IN  IF HasAt(s, i, <<"[", "!", "[">>) /\ As # {}
      THEN CEnd(Min(Bs(Min(As))) + 3) + 1
      ELSE 0

\* SANY reads no grave accent inside a string: the character is named.
Backtick == "BACKTICK"

Fence == <<Backtick, Backtick, Backtick>>

\* three backticks, [\s\S]*?, three backticks
CodeBlockEnd(s, i) ==
  LET closes == {k \in (i + 3)..Len(s) : HasAt(s, k, Fence)}
  IN  IF HasAt(s, i, Fence) /\ closes # {} THEN Min(closes) + 3 ELSE 0

\* backtick, [^backtick]+, backtick
InlineCodeEnd(s, i) ==
  LET k == FirstIn(s, i + 1, {Backtick})
  IN  IF Chr(s, i) = Backtick /\ k >= i + 2 /\ k <= Len(s) THEN k + 1 ELSE 0

\* ^#{1,6}\s*  (re.MULTILINE)
HeaderEnd(s, i) ==
  LET h == FirstNotIn(s, i, {"#"})
      hashes == IF h - i > 6 THEN 6 ELSE h - i
  IN  IF AtLineStart(s, i) /\ Chr(s, i) = "#"
      THEN FirstNotSpace(s, i + hashes) ELSE 0

\* <d><d>([^<d>]+)<d><d>  for the two-character emphasis delimiters
Emph2End(s, i, d) ==
  LET k == FirstIn(s, i + 2, {d})
  IN  IF /\ Chr(s, i) = d /\ Chr(s, i + 1) = d
         /\ k >= i + 3 /\ Chr(s, k) = d /\ Chr(s, k + 1) = d
      THEN k + 2 ELSE 0

Emph2Text(s, i, d) == SubSeq(s, i + 2, FirstIn(s, i + 2, {d}) - 1)

\* <d>([^<d>]+)<d>
Emph1End(s, i, d) ==
  LET k == FirstIn(s, i + 1, {d})
  IN  IF Chr(s, i) = d /\ k >= i + 2 /\ k <= Len(s) THEN k + 1 ELSE 0

Emph1Text(s, i, d) == SubSeq(s, i + 1, FirstIn(s, i + 1, {d}) - 1)

BoldStarEnd(s, i) == Emph2End(s, i, "*")

ItalicStarEnd(s, i) == Emph1End(s, i, "*")

BoldUnderEnd(s, i) == Emph2End(s, i, "_")

ItalicUnderEnd(s, i) == Emph1End(s, i, "_")

\* ^>\s*  (re.MULTILINE)
BlockquoteEnd(s, i) ==
  IF AtLineStart(s, i) /\ Chr(s, i) = ">" THEN FirstNotSpace(s, i + 1) ELSE 0

\* ^[-*_]{3,}\s*$  (re.MULTILINE): the greedy \s* gives characters back until
\* it stands at the end of the text or before a line break.
RuleEnd(s, i) ==
  LET r == FirstNotIn(s, i, {"-", "*", "_"})
      w == FirstNotSpace(s, r)
      stops == {e \in r..(w - 1) : s[e] = "\n"}
  IN  IF AtLineStart(s, i) /\ r - i >= 3
      THEN IF w = Len(s) + 1 THEN w
           ELSE IF stops # {} THEN Max(stops) ELSE 0
      ELSE 0

\* ^[\s]*[-*+]\s+  (re.MULTILINE)
BulletEnd(s, i) ==
  LET w == FirstNotSpace(s, i)
  IN  IF /\ AtLineStart(s, i)
         /\ Chr(s, w) \in {"-", "*", "+"}
         /\ Chr(s, w + 1) \in Whitespace
      THEN FirstNotSpace(s, w + 1) ELSE 0

\* ^[\s]*\d+\.\s+  (re.MULTILINE)
NumberedEnd(s, i) ==
  LET w == FirstNotSpace(s, i)
      d == FirstNotIn(s, w, Digits)
  IN  IF /\ AtLineStart(s, i)
         /\ d > w
         /\ Chr(s, d) = "."
         /\ Chr(s, d + 1) \in Whitespace
      THEN FirstNotSpace(s, d + 1) ELSE 0

\* https?://[^\s]+
UrlEnd(s, i) ==
  LET p == IF Chr(s, i + 4) = "s" THEN i + 5 ELSE i + 4
  IN  IF /\ HasAt(s, i, <<"h", "t", "t", "p">>)
         /\ HasAt(s, p, <<":", "/", "/">>)
         /\ p + 3 <= Len(s)
         /\ s[p + 3] \notin Whitespace
      THEN FirstIn(s, p + 3, Whitespace) ELSE 0

BoldStarText(s, i) == Emph2Text(s, i, "*")

ItalicStarText(s, i) == Emph1Text(s, i, "*")

BoldUnderText(s, i) == Emph2Text(s, i, "_")

ItalicUnderText(s, i) == Emph1Text(s, i, "_")

\* re.sub(pattern, r, s) for a constant replacement r
SubConst(s, MatchEnd(_, _), r) == Sub(s, EndsOf(s, MatchEnd), ConstRepl(s, r))

\* re.sub(pattern, r'\1', s)
SubGroup(s, MatchEnd(_, _), Group(_, _)) ==
  Sub(s, EndsOf(s, MatchEnd), [i \in 1..Len(s) |-> Group(s, i)])

\* fetch_readmes.strip_markdown: the substitutions in the order of the code.
strip_markdown(text) ==
  LET t1  == SubConst(text, HtmlTagEnd, Blank)
      t2  == SubConst(t1, ImageEnd, Blank)
      t3  == SubGroup(t2, LinkEnd, LinkText)
      t4  == SubConst(t3, BadgeEnd, Blank)
      t5  == SubConst(t4, CodeBlockEnd, Blank)
      t6  == SubConst(t5, InlineCodeEnd, Blank)
      t7  == SubConst(t6, HeaderEnd, Nothing)
      t8  == SubGroup(t7, BoldStarEnd, BoldStarText)
      t9  == SubGroup(t8, ItalicStarEnd, ItalicStarText)
      t10 == SubGroup(t9, BoldUnderEnd, BoldUnderText)
      t11 == SubGroup(t10, ItalicUnderEnd, ItalicUnderText)
      t12 == SubConst(t11, BlockquoteEnd, Nothing)
      t13 == SubConst(t12, RuleEnd, Nothing)
      t14 == SubConst(t13, BulletEnd, Nothing)
      t15 == SubConst(t14, NumberedEnd, Nothing)
      t16 == SubConst(t15, UrlEnd, Blank)
  IN  IF text = <<>> THEN <<>> ELSE t16

\* [a-zA-Z0-9.\-,]
AllowedChars == Letters \cup Digits \cup {".", "-", ","}

IsFirstOfSpaces(pair) == ~(pair[1] = " " /\ pair[2] = " ")

\* str.strip() of a text whose only whitespace is the space.
Strip(s) ==
  LET a == FirstNotIn(s, 1, Whitespace)
      kept == {k \in 1..Len(s) : s[k] \notin Whitespace}
  IN  IF kept = {} THEN <<>> ELSE SubSeq(s, a, Max(kept))

\* fetch_readmes.aggressive_clean
aggressive_clean(text) ==
  LET cleaned == [i \in 1..Len(text) |->
                    IF text[i] \in AllowedChars THEN text[i] ELSE " "]
      \* re.sub(r' +', ' ', cleaned): a space is kept when no space precedes it
      paired == [i \in 1..Len(text) |->
                    <<cleaned[i], IF i = 1 THEN "" ELSE cleaned[i - 1]>>]
      kept == SelectSeq(paired, IsFirstOfSpaces)
      collapsed == [i \in 1..Len(kept) |-> kept[i][1]]
  IN  IF text = <<>> THEN <<>> ELSE Strip(collapsed)

\* text.rfind(' ') as Python counts (0-based, -1 when there is none)
RFindSpace(text) ==
  LET at == {k \in 1..Len(text) : text[k] = " "}
  IN  IF at = {} THEN -1 ELSE Max(at) - 1

\* A variant that always cuts at the budget, mid-word or not.
TruncateMidWord(text) ==
  IF Len(text) > MAX_README_CHARS
  THEN SubSeq(text, 1, MAX_README_CHARS)
  ELSE text

\* Step 3 of process_readme
Truncate(text) ==
  IF Len(text) > MAX_README_CHARS
  THEN LET cut == SubSeq(text, 1, MAX_README_CHARS)
           last_space == RFindSpace(cut)
       IN  IF last_space > MAX_README_CHARS - TruncateMargin
           THEN SubSeq(cut, 1, last_space)
           ELSE cut
  ELSE text

\* Steps 1 and 2 of process_readme
CleanText(raw_text) == aggressive_clean(strip_markdown(raw_text))

\* fetch_readmes.process_readme
process_readme(raw_text) ==
  IF raw_text = <<>> THEN <<>>
  ELSE Truncate(CleanText(raw_text))

(***************************************************************************)
(* Ordered maps (Python dicts keep insertion order): a sequence of         *)
(* [k |-> key, v |-> value] with distinct keys.                            *)
(***************************************************************************)
DictHas(d, k) == \E i \in DOMAIN d : d[i].k = k

DictGet(d, k) == d[CHOOSE i \in DOMAIN d : d[i].k = k].v

\* d[k] = v: an existing key keeps its place, a new key goes to the end.
DictPut(d, k, v) ==
  IF DictHas(d, k)
  THEN [i \in DOMAIN d |-> IF d[i].k = k THEN [k |-> k, v |-> v] ELSE d[i]]
  ELSE Append(d, [k |-> k, v |-> v])

DictKeys(d) == [i \in DOMAIN d |-> d[i].k]

DictKeySet(d) == {d[i].k : i \in DOMAIN d}

SeqToSet(s) == {s[i] : i \in DOMAIN s}

(***************************************************************************)
(* Numbers.  A float quotient is held exactly, as <<numerator,             *)
(* denominator>> in lowest terms.  A millisecond timestamp                 *)
(* int(dt.timestamp() * 1000) of a whole-second time is held as            *)
(* [sec, ms]: 1000 * sec does not fit TLC's 32-bit integers.               *)
(***************************************************************************)
RECURSIVE GCD(_, _)
GCD(a, b) == IF b = 0 THEN a ELSE GCD(b, a % b)

Ratio(n, d) == IF n = 0 THEN <<0, 1>> ELSE <<n \div GCD(n, d), d \div GCD(n, d)>>

Zero == <<0, 1>>

Millis(sec) == [sec |-> sec, ms |-> 0]

ZeroTs == [sec |-> 0, ms |-> 0]

\* A timestamp string of the remote answer: absent/null, or a time in epoch seconds.
NoTime == [has |-> FALSE]

At(sec) == [has |-> TRUE, ok |-> TRUE, sec |-> sec]

\* A timestamp string that does not parse.
BadTime == [has |-> TRUE, ok |-> FALSE]

DaySeconds == 60 * 60 * 24

\* 60 * 60 * 24 * 30.44
MonthSeconds == 2630016

\* the freshness cap
MaxMonths == 18

\* int(x / y): Python's int() rounds toward zero
TruncDiv(x, y) == IF x >= 0 THEN x \div y ELSE -((-x) \div y)

\* A variant that rounds the months up instead of down.
MonthsSinceRoundedUp(diff) ==
  IF (diff + MonthSeconds - 1) \div MonthSeconds > MaxMonths
  THEN MaxMonths
  ELSE (diff + MonthSeconds - 1) \div MonthSeconds

\* min(18, int(diff / (60 * 60 * 24 * 30.44)))
MonthsSince(diff) ==
  IF TruncDiv(diff, MonthSeconds) > MaxMonths
  THEN MaxMonths
  ELSE TruncDiv(diff, MonthSeconds)

\* count / max(1, diff / (60 * 60 * 24 * 30.44))
PerMonth(count, diff) ==
  IF diff <= MonthSeconds
  THEN Ratio(count, 1)
  ELSE Ratio(count * MonthSeconds, diff)

\* Code points of the printable ASCII characters, for Python's string order.
Ascii == <<
  " ", "!", "\"", "#", "$", "%", "&", "'", "(", ")", "*", "+", ",", "-", ".", "/",
  "0", "1", "2", "3", "4", "5", "6", "7", "8", "9", ":", ";", "<", "=", ">", "?",
  "@", "A", "B", "C", "D", "E", "F", "G", "H", "I", "J", "K", "L", "M", "N", "O",
  "P", "Q", "R", "S", "T", "U", "V", "W", "X", "Y", "Z", "[", "\\", "]", "^", "_",
  Backtick, "a", "b", "c", "d", "e", "f", "g", "h", "i", "j", "k", "l", "m", "n", "o",
  "p", "q", "r", "s", "t", "u", "v", "w", "x", "y", "z", "{", "|", "}", "~" >>

CodePoints ==
  [c \in {Ascii[i] : i \in DOMAIN Ascii} |->
     31 + CHOOSE i \in DOMAIN Ascii : Ascii[i] = c]

Ord(c) == CodePoints[c]

\* a < b for Python strings
StrLess(a, b) ==
  \/ \E k \in 1..Len(a) :
       /\ k <= Len(b)
       /\ \A j \in 1..(k - 1) : a[j] = b[j]
       /\ Ord(a[k]) < Ord(b[k])
  \/ /\ Len(a) < Len(b)
     /\ \A j \in 1..Len(a) : a[j] = b[j]

(***************************************************************************)
(* State                                                                   *)
(***************************************************************************)
VARIABLES
  nodes_json,        \* the file nodes.json: [exists, nodes]
  data_file,         \* the file custom-node-list.json: [exists, custom_nodes]
  readmes_file,      \* the file readmes_cache.json: [exists, cache]
  summaries_file,    \* the file summaries_cache.json: [exists, cache]
  clock,             \* the wall clock, epoch seconds
  runs,              \* scripts started so far
  pc,                \* where the running script stands; "idle": none runs
  now,               \* datetime.now() as the running script read it
  existing_nodes,    \* fetch_data, fetch_registry
  manager_nodes,     \* fetch_data
  nodes_by_repo,     \* fetch_data
  sorted_repos,      \* fetch_data
  repo_data_map,     \* fetch_data
  fd_i,              \* fetch_data: the batch loop's i
  fd_requests,       \* fetch_data: [batch, ok] of each request sent, in order
  registry_nodes,    \* fetch_registry: all_nodes of fetch_all_registry_nodes
  reg_page,          \* fetch_registry: page of fetch_all_registry_nodes
  reg_requests,      \* fetch_registry: [ok, nodes] of each page request, in order
  readme_cache,      \* fetch_readmes: the cache in memory
  rm_loaded,         \* fetch_readmes: the cache as load_readme_cache returned it
  repos_list,        \* fetch_readmes: the repos to fetch
  rm_i,              \* fetch_readmes: the batch loop's i
  rm_requested,      \* fetch_readmes: the repos named in a request of this run
  summaries_cache,   \* generate_summaries: the cache in memory
  gs_loaded,         \* generate_summaries: the cache as load_summaries_cache returned it
  repos_to_process,  \* generate_summaries: [name, text] of the items to submit
  gs_i,              \* generate_summaries: items taken from repos_to_process
  gs_sent,           \* generate_summaries: the names submitted, in order
  gs_errors,         \* generate_summaries: errors
  gs_results,        \* generate_summaries: what each call returned, in order
  raw_text,          \* process_readme: a text given to it
  san_pc,            \* process_readme: "raw", "once" or "twice" applied; "off"
  san_text,          \* process_readme's text after its step 2, for raw_text
  first_pass,        \* process_readme(raw_text)
  second_pass,       \* process_readme(first_pass)
  url,               \* the key functions: a reference given to them
  url_pc,            \* the key functions: "given", "resolved", "keyed"; "off"
  repo_path,         \* get_repo_path(url)
  registry_key,      \* normalize_repo_url(url)
  rm_failed          \* the repos of the requests that failed in the last
                     \* fetch_readmes run

files == <<nodes_json, data_file, readmes_file, summaries_file>>

fdvars == <<existing_nodes, manager_nodes, nodes_by_repo, sorted_repos,
            repo_data_map, fd_i, fd_requests>>

regvars == <<registry_nodes, reg_page, reg_requests>>

rmvars == <<readme_cache, rm_loaded, repos_list, rm_i, rm_requested>>

gsvars == <<summaries_cache, gs_loaded, repos_to_process, gs_i, gs_sent,
           gs_errors, gs_results>>

memory == <<now, fdvars, regvars, rmvars, gsvars>>

sanvars == <<raw_text, san_pc, san_text, first_pass, second_pass>>

urlvars == <<url, url_pc, repo_path, registry_key>>

purevars == <<sanvars, urlvars>>

vars == <<files, clock, runs, pc, memory, purevars, rm_failed>>

(***************************************************************************)
(* The remote sources the scripts read, as small sets of possible answers  *)
(***************************************************************************)
MaxRuns == 4

Now0 == 800 * DaySeconds

TickSeconds == 31 * DaySeconds

\* "https://github.com/Foo/Bar.git"
Url_FooBarGit ==
  <<"h","t","t","p","s",":","/","/","g","i","t","h","u","b",".","c","o","m","/",
    "F","o","o","/","B","a","r",".","g","i","t">>

\* "https://github.com/foo/bar"
Url_foobar ==
  <<"h","t","t","p","s",":","/","/","g","i","t","h","u","b",".","c","o","m","/",
    "f","o","o","/","b","a","r">>

\* "https://GitHub.com/Baz/Qux"
Url_HostCase ==
  <<"h","t","t","p","s",":","/","/","G","i","t","H","u","b",".","c","o","m","/",
    "B","a","z","/","Q","u","x">>

\* "https://gitlab.com/x/y"
Url_GitLab ==
  <<"h","t","t","p","s",":","/","/","g","i","t","l","a","b",".","c","o","m","/",
    "x","/","y">>

\* "https://github.com/a/b.c"
Url_Dotted ==
  <<"h","t","t","p","s",":","/","/","g","i","t","h","u","b",".","c","o","m","/",
    "a","/","b",".","c">>

\* "https://github.com/new/pack/tree/main"
Url_NewPack ==
  <<"h","t","t","p","s",":","/","/","g","i","t","h","u","b",".","c","o","m","/",
    "n","e","w","/","p","a","c","k","/","t","r","e","e","/","m","a","i","n">>

Key_foobar == <<"f","o","o","/","b","a","r">>

Key_dotted == <<"a","/","b",".","c">>

Key_newpack == <<"n","e","w","/","p","a","c","k">>

\* Entries of the upstream plugin list (custom_nodes).
M_FooBar == [author |-> "Foo", title |-> <<"B","a","r">>,
             reference |-> Url_FooBarGit, description |-> "bar nodes", id |-> "bar"]

M_foobar == [author |-> "someone", title |-> <<"b","a","r","2">>,
             reference |-> Url_foobar, description |-> "renamed", id |-> "bar2"]

M_GitLab == [author |-> "x", title |-> <<"Y">>,
             reference |-> Url_GitLab, description |-> "elsewhere", id |-> "y"]

M_Dotted == [author |-> "a", title |-> <<"B","C">>,
             reference |-> Url_Dotted, description |-> "dotted", id |-> "manager"]

ManagerLists == { <<M_FooBar>>,
                  <<M_FooBar, M_GitLab, M_Dotted>>,
                  <<M_foobar, M_Dotted>> }

\* What the GraphQL endpoint holds for a repository (None: NoInfo).
NoInfo == [found |-> FALSE]

GithubWorlds == {"live", "gone"}

GithubAnswer(w, full_name) ==
  IF w = "live" /\ full_name = Key_foobar
  THEN [found |-> TRUE, stars |-> 120,
        pushedAt |-> At(Now0 - 30 * DaySeconds),
        createdAt |-> At(Now0 - 400 * DaySeconds)]
  ELSE IF w = "live" /\ full_name = Key_dotted
  THEN [found |-> TRUE, stars |-> 7,
        pushedAt |-> NoTime,
        createdAt |-> At(Now0 - 10 * DaySeconds)]
  ELSE IF w = "live" /\ full_name = Key_newpack
  THEN [found |-> TRUE, stars |-> 55,
        pushedAt |-> At(Now0 - 600 * DaySeconds),
        createdAt |-> NoTime]
  ELSE IF w = "live" /\ HasAt(full_name, 1, <<"o", "/", "r">>)
  THEN [found |-> TRUE, stars |-> Len(full_name),
        pushedAt |-> At(Now0 - 90 * DaySeconds),
        createdAt |-> At(Now0 - 200 * DaySeconds)]
  ELSE NoInfo

(***************************************************************************)
(* fetch_data.py                                                           *)
(***************************************************************************)
batch_size == 100

NoFile == [exists |-> FALSE]

\* The records of nodes.json, [] when the file is absent (lines 81-87).
LoadNodes(file) == IF file.exists THEN file.nodes ELSE <<>>

\* Lines 121-127: index the first n existing nodes by lowercase repo key.  A
\* key stands where it was first put and holds the node put last.  (parts and
\* keys are concatenated to the empty tuple to have them tabulated once.)
IndexExisting(nodes, n) ==
  LET parts == <<>> \o [i \in 1..n |-> get_repo_path(nodes[i].reference)]
      keys == <<>> \o [i \in 1..n |->
                        IF parts[i].found THEN RepoKey(parts[i]) ELSE NoKey]
      IsFirst(i) == parts[i].found /\ \A j \in 1..(i - 1) : keys[j] # keys[i]
      firsts == SelectSeq([i \in 1..n |-> i], IsFirst)
      Last(key) == Max({i \in 1..n : parts[i].found /\ keys[i] = key})
  IN  [j \in DOMAIN firsts |->
         [k |-> keys[firsts[j]], v |-> nodes[Last(keys[firsts[j]])]]]

\* Lines 138-146
NewFromManager(node) ==
  [author |-> node.author, title |-> node.title, reference |-> node.reference,
   description |-> node.description, id |-> node.id,
   downloads |-> 0, dpm |-> Zero]

\* A variant in which the Manager's node replaces the one present.
RECURSIVE AddManagerOverwriting(_, _, _)
AddManagerOverwriting(d0, manager, n) ==
  IF n = 0 THEN d0
  ELSE LET d == AddManagerOverwriting(d0, manager, n - 1)
           parts == get_repo_path(manager[n].reference)
       IN  IF parts.found
           THEN DictPut(d, RepoKey(parts), NewFromManager(manager[n]))
           ELSE d

\* Lines 129-147: add the Manager's nodes that are not present yet.
RECURSIVE AddManager(_, _, _)
AddManager(d0, manager, n) ==
  IF n = 0 THEN d0
  ELSE LET d == AddManager(d0, manager, n - 1)
           parts == get_repo_path(manager[n].reference)
       IN  IF parts.found /\ ~DictHas(d, RepoKey(parts))
           THEN DictPut(d, RepoKey(parts), NewFromManager(manager[n]))
           ELSE d

\* Lines 118-147
MergeManager(existing, manager) ==
  AddManager(IndexExisting(existing, Len(existing)), manager, Len(manager))

\* len(repo_key.split('/')) == 2
SplitsInTwo(key) == Cardinality({i \in DOMAIN key : key[i] = "/"}) = 1

\* Lines 152-159: sorted(unique_repos.keys())
SortedRepos(d) ==
  SortSeq(SelectSeq(DictKeys(d), SplitsInTwo), StrLess)

\* sorted_repos[i:i+batch_size], i counted from 0
BatchAt(repos, i, size) ==
  SubSeq(repos, i + 1, IF i + size < Len(repos) THEN i + size ELSE Len(repos))

\* repo_data_map.get(repo_key)
RepoDataGet(m, key) == IF key \in DOMAIN m THEN m[key] ELSE NoInfo

\* A variant that adds the fetched stars to the stars the record holds.
ConsolidateNodeAddingStars(node, r_data, t) ==
  LET pushed  == r_data.found /\ r_data.pushedAt.has
      created == r_data.found /\ r_data.createdAt.has
      held    == IF "stars" \in DOMAIN node THEN node.stars ELSE 0
      stars   == IF r_data.found THEN held + r_data.stars ELSE 0
  IN  [author |-> node.author, title |-> node.title,
       reference |-> node.reference, description |-> node.description,
       id |-> node.id, downloads |-> node.downloads, dpm |-> node.dpm,
       stars |-> stars,
       spm |-> IF created THEN PerMonth(stars, t - r_data.createdAt.sec) ELSE Zero,
       lastUpdateTs |-> IF pushed THEN Millis(r_data.pushedAt.sec) ELSE ZeroTs,
       createdAtTs |-> IF created THEN Millis(r_data.createdAt.sec) ELSE ZeroTs,
       monthsSinceUpdate |-> IF pushed
                             THEN MonthsSince(t - r_data.pushedAt.sec)
                             ELSE MaxMonths]

\* A variant that keeps the metrics a record holds when nothing was fetched
\* for its key.
ConsolidateNodeKeepingStale(node, r_data, t) ==
  LET pushed  == r_data.found /\ r_data.pushedAt.has
      created == r_data.found /\ r_data.createdAt.has
      stars   == IF r_data.found THEN r_data.stars ELSE 0
  IN  IF ~r_data.found /\ "stars" \in DOMAIN node
      THEN node
      ELSE [author |-> node.author, title |-> node.title,
            reference |-> node.reference, description |-> node.description,
            id |-> node.id, downloads |-> node.downloads, dpm |-> node.dpm,
            stars |-> stars,
            spm |-> IF created THEN PerMonth(stars, t - r_data.createdAt.sec) ELSE Zero,
            lastUpdateTs |-> IF pushed THEN Millis(r_data.pushedAt.sec) ELSE ZeroTs,
            createdAtTs |-> IF created THEN Millis(r_data.createdAt.sec) ELSE ZeroTs,
            monthsSinceUpdate |-> IF pushed
                                  THEN MonthsSince(t - r_data.pushedAt.sec)
                                  ELSE MaxMonths]

\* Lines 234-278: one record of final_nodes (searchStr and html, which no
\* script reads back, are left out).
ConsolidateNode(node, r_data, t) ==
  LET pushed  == r_data.found /\ r_data.pushedAt.has
      created == r_data.found /\ r_data.createdAt.has
      stars   == IF r_data.found THEN r_data.stars ELSE 0
  IN  [author |-> node.author, title |-> node.title,
       reference |-> node.reference, description |-> node.description,
       id |-> node.id, downloads |-> node.downloads, dpm |-> node.dpm,
       stars |-> stars,
       spm |-> IF created THEN PerMonth(stars, t - r_data.createdAt.sec) ELSE Zero,
       lastUpdateTs |-> IF pushed THEN Millis(r_data.pushedAt.sec) ELSE ZeroTs,
       createdAtTs |-> IF created THEN Millis(r_data.createdAt.sec) ELSE ZeroTs,
       monthsSinceUpdate |-> IF pushed
                             THEN MonthsSince(t - r_data.pushedAt.sec)
                             ELSE MaxMonths]

\* Lines 204-300: final_nodes
Consolidate(d, data, t) ==
  [i \in DOMAIN d |-> ConsolidateNode(d[i].v, RepoDataGet(data, d[i].k), t)]

\* a < b for two quotients with positive denominators
RatioLess(a, b) == a[1] * b[2] < b[1] * a[2]

\* a < b for two timestamps in milliseconds
TsLess(a, b) == a.sec < b.sec \/ (a.sec = b.sec /\ a.ms < b.ms)

\* The fields sortedIndices is built for
SortFields == {"stars", "spm", "updated", "created", "name", "downloads", "dpm"}

\* Whether the sort key of nodes[i] is less than that of nodes[j]: the
\* lambdas of fetch_data.py lines 311-332, fetch_registry.py lines 289-303.
KeyLess(nodes, field, i, j) ==
  CASE field = "stars" -> nodes[i].stars < nodes[j].stars
    [] field = "spm" -> RatioLess(nodes[i].spm, nodes[j].spm)
    [] field = "updated" -> TsLess(nodes[i].lastUpdateTs, nodes[j].lastUpdateTs)
    [] field = "created" -> TsLess(nodes[i].createdAtTs, nodes[j].createdAtTs)
    [] field = "name" -> StrLess(Lower(nodes[i].title), Lower(nodes[j].title))
    [] field = "downloads" -> nodes[i].downloads < nodes[j].downloads
    [] field = "dpm" -> RatioLess(nodes[i].dpm, nodes[j].dpm)

\* Whether position j comes before position i in the sorted list: by key,
\* equal keys keeping their order (sorted is stable, with reverse as well).
ComesBefore(nodes, field, reverse, j, i) ==
  \/ IF reverse THEN KeyLess(nodes, field, i, j) ELSE KeyLess(nodes, field, j, i)
  \/ /\ ~KeyLess(nodes, field, i, j)
     /\ ~KeyLess(nodes, field, j, i)
     /\ j < i

\* A variant that sorts upwards whatever reverse says.
SortedUpwards(nodes, field, reverse) ==
  LET Before(a, b) == ComesBefore(nodes, field, FALSE, a + 1, b + 1)
  IN  SortSeq([i \in 1..Len(nodes) |-> i - 1], Before)

\* sorted(indices, key=lambda i: nodes[i][field], reverse=reverse), the
\* positions counted from 0 as range(len(nodes)) gives them
Sorted(nodes, field, reverse) ==
  LET Before(a, b) == ComesBefore(nodes, field, reverse, a + 1, b + 1)
  IN  SortSeq([i \in 1..Len(nodes) |-> i - 1], Before)

\* fetch_data.py lines 307-333, fetch_registry.py lines 286-304
SortedIndices(nodes) ==
  [stars_desc |-> Sorted(nodes, "stars", TRUE),
   stars_asc |-> Sorted(nodes, "stars", FALSE),
   spm_desc |-> Sorted(nodes, "spm", TRUE),
   spm_asc |-> Sorted(nodes, "spm", FALSE),
   updated_desc |-> Sorted(nodes, "updated", TRUE),
   updated_asc |-> Sorted(nodes, "updated", FALSE),
   created_desc |-> Sorted(nodes, "created", TRUE),
   created_asc |-> Sorted(nodes, "created", FALSE),
   name_asc |-> Sorted(nodes, "name", FALSE),
   name_desc |-> Sorted(nodes, "name", TRUE),
   downloads_desc |-> Sorted(nodes, "downloads", TRUE),
   downloads_asc |-> Sorted(nodes, "downloads", FALSE),
   dpm_desc |-> Sorted(nodes, "dpm", TRUE),
   dpm_asc |-> Sorted(nodes, "dpm", FALSE)]

\* The bundle written to nodes.json (and nodes.js)
Bundle(nodes) ==
  [exists |-> TRUE, nodes |-> nodes, sortedIndices |-> SortedIndices(nodes)]

NoMemory ==
  /\ existing_nodes' = <<>>
  /\ manager_nodes' = <<>>
  /\ nodes_by_repo' = <<>>
  /\ sorted_repos' = <<>>
  /\ repo_data_map' = <<>>
  /\ fd_i' = 0
  /\ fd_requests' = <<>>
  /\ now' = 0
  /\ registry_nodes' = <<>>
  /\ reg_page' = 0
  /\ reg_requests' = <<>>
  /\ readme_cache' = <<>>
  /\ rm_loaded' = <<>>
  /\ repos_list' = <<>>
  /\ rm_i' = 0
  /\ rm_requested' = {}
  /\ summaries_cache' = <<>>
  /\ gs_loaded' = <<>>
  /\ repos_to_process' = <<>>
  /\ gs_i' = 0
  /\ gs_sent' = <<>>
  /\ gs_errors' = 0
  /\ gs_results' = <<>>

\* main, lines 115-161: merge the Manager's list into the loaded nodes and
\* sort the repo keys.
FetchDataMerge(raw) ==
  /\ pc' = "fd_fetch"
  /\ existing_nodes' = LoadNodes(nodes_json)
  /\ manager_nodes' = raw
  /\ nodes_by_repo' = MergeManager(LoadNodes(nodes_json), raw)
  /\ sorted_repos' = SortedRepos(nodes_by_repo')
  /\ repo_data_map' = <<>>
  /\ fd_i' = 0
  /\ fd_requests' = <<>>

\* main, lines 80-161: load nodes.json, download the Manager's list (or fall
\* back to the cached copy, or give up), merge.
FetchDataStart ==
  /\ pc = "idle"
  /\ runs < MaxRuns
  /\ runs' = runs + 1
  /\ \/ \E got \in ManagerLists :
          /\ data_file' = [exists |-> TRUE, custom_nodes |-> got]
          /\ FetchDataMerge(got)
     \/ /\ data_file.exists
        /\ FetchDataMerge(data_file.custom_nodes)
        /\ UNCHANGED data_file
     \/ /\ ~data_file.exists
        /\ pc' = "fd_nodata"
        /\ UNCHANGED <<data_file, fdvars>>
  /\ UNCHANGED <<nodes_json, readmes_file, summaries_file, clock, now,
                 regvars, rmvars, gsvars>>
  /\ UNCHANGED purevars
  /\ UNCHANGED rm_failed

\* Lines 167-199: one turn of the batch loop.  The request fails, or answers
\* with what the endpoint holds for each alias.
FetchDataBatch ==
  /\ pc = "fd_fetch"
  /\ fd_i < Len(sorted_repos)
  /\ \E w \in GithubWorlds \cup {"failed"} :
       LET batch == BatchAt(sorted_repos, fd_i, batch_size)
           got == [name \in SeqToSet(batch) |-> GithubAnswer(w, name)]
       IN  /\ repo_data_map' = IF w = "failed" THEN repo_data_map
                                ELSE got @@ repo_data_map
           /\ fd_requests' =
                Append(fd_requests, [batch |-> batch, ok |-> w # "failed"])
  /\ fd_i' = fd_i + batch_size
  /\ UNCHANGED <<files, clock, runs, pc, now, existing_nodes,
                 manager_nodes, nodes_by_repo, sorted_repos, regvars, rmvars,
                 gsvars>>
  /\ UNCHANGED purevars
  /\ UNCHANGED rm_failed

\* Lines 202-349: consolidate and write nodes.json / nodes.js.
FetchDataWrite ==
  /\ pc = "fd_fetch"
  /\ fd_i >= Len(sorted_repos)
  /\ now' = clock
  /\ nodes_json' = Bundle(Consolidate(nodes_by_repo, repo_data_map, clock))
  /\ pc' = "fd_done"
  /\ UNCHANGED <<data_file, readmes_file, summaries_file, clock, runs,
                 fdvars, regvars, rmvars, gsvars>>
  /\ UNCHANGED purevars
  /\ UNCHANGED rm_failed

(***************************************************************************)
(* fetch_registry.py                                                       *)
(***************************************************************************)
\* 30.44 days a month, times 100
DaysPerMonthX100 == 3044

\* monthsSinceUpdate of a registry-only node before its date is parsed
RegistryDefaultMonths == 999

\* Entries of the registry (api.comfy.org/nodes).
R_foobar == [publisher |-> "Foo", name |-> <<"B","a","r">>,
             repository |-> Url_foobar, description |-> "bar nodes",
             id |-> "bar", downloads |-> 900, github_stars |-> 130,
             created_at |-> At(Now0 - 100 * DaySeconds)]

R_host == [publisher |-> "Baz", name |-> <<"Q","u","x">>,
           repository |-> Url_HostCase, description |-> "qux",
           id |-> "qux", downloads |-> 50, github_stars |-> 3,
           created_at |-> NoTime]

R_new == [publisher |-> "new", name |-> <<"P","a","c","k">>,
          repository |-> Url_NewPack, description |-> "pack",
          id |-> "pack", downloads |-> 60, github_stars |-> 40,
          created_at |-> At(Now0 - 700 * DaySeconds)]

R_bad == [publisher |-> "a", name |-> <<"B","C">>,
          repository |-> Url_Dotted, description |-> "dotted",
          id |-> "bc", downloads |-> 5, github_stars |-> 0,
          created_at |-> BadTime]

\* Answers of one page request: {nodes, totalPages}.
RegistryAnswers ==
  { [nodes |-> <<R_foobar, R_host>>, totalPages |-> 1],
    [nodes |-> <<R_new, R_bad>>, totalPages |-> 2] }

\* calculate_dpm, lines 83-99
calculate_dpm(downloads, created_at, t) ==
  IF downloads = 0 \/ ~created_at.has \/ ~created_at.ok
  THEN Zero
  ELSE LET diff_days == (t - created_at.sec) \div DaySeconds
       IN  IF diff_days * 100 <= DaysPerMonthX100
           THEN Ratio(downloads, 1)
           ELSE Ratio(downloads * DaysPerMonthX100, diff_days * 100)

\* Lines 176-181: registry_by_repo
RECURSIVE RegistryByRepo(_, _)
RegistryByRepo(rnodes, n) ==
  IF n = 0 THEN <<>>
  ELSE LET d == RegistryByRepo(rnodes, n - 1)
           repo_key == normalize_repo_url(rnodes[n].repository)
       IN  IF repo_key # NoKey THEN DictPut(d, repo_key, rnodes[n]) ELSE d

\* Lines 201-203: cap monthsSinceUpdate at 18
CapMonths(m) == IF m > MaxMonths THEN MaxMonths ELSE m

\* A variant that also takes the star count the registry reports.
RegistryUpdateNodeWithStars(node, by_repo, t) ==
  LET repo_key == normalize_repo_url(node.reference)
  IN  IF repo_key # NoKey /\ DictHas(by_repo, repo_key)
      THEN LET rnode == DictGet(by_repo, repo_key)
           IN  [node EXCEPT
                  !.downloads = rnode.downloads,
                  !.stars = rnode.github_stars,
                  !.dpm = calculate_dpm(rnode.downloads, rnode.created_at, t),
                  !.monthsSinceUpdate = CapMonths(@)]
      ELSE [node EXCEPT
              !.downloads = 0,
              !.dpm = Zero,
              !.monthsSinceUpdate = CapMonths(@)]

\* A variant that leaves the counts of a node without a match as they are.
RegistryUpdateNodeKeepingCounts(node, by_repo, t) ==
  LET repo_key == normalize_repo_url(node.reference)
  IN  IF repo_key # NoKey /\ DictHas(by_repo, repo_key)
      THEN LET rnode == DictGet(by_repo, repo_key)
           IN  [node EXCEPT
                  !.downloads = rnode.downloads,
                  !.dpm = calculate_dpm(rnode.downloads, rnode.created_at, t),
                  !.monthsSinceUpdate = CapMonths(@)]
      ELSE [node EXCEPT !.monthsSinceUpdate = CapMonths(@)]

\* Lines 190-213: one existing node after the merge
RegistryUpdateNode(node, by_repo, t) ==
  LET repo_key == normalize_repo_url(node.reference)
  IN  IF repo_key # NoKey /\ DictHas(by_repo, repo_key)
      THEN LET rnode == DictGet(by_repo, repo_key)
           IN  [node EXCEPT
                  !.downloads = rnode.downloads,
                  !.dpm = calculate_dpm(rnode.downloads, rnode.created_at, t),
                  !.monthsSinceUpdate = CapMonths(@)]
      ELSE [node EXCEPT
              !.downloads = 0,
              !.dpm = Zero,
              !.monthsSinceUpdate = CapMonths(@)]

\* Lines 226-270: the record of a node the registry has and nodes.json lacks
RegistryNewNode(rnode, t) ==
  LET created_at == rnode.created_at
      parsed == created_at.has /\ created_at.ok
      diff == t - created_at.sec
  IN  [author |-> rnode.publisher, title |-> rnode.name,
       reference |-> rnode.repository, description |-> rnode.description,
       id |-> rnode.id,
       stars |-> rnode.github_stars,
       spm |-> IF parsed THEN PerMonth(rnode.github_stars, diff) ELSE Zero,
       lastUpdateTs |-> IF parsed THEN Millis(created_at.sec) ELSE ZeroTs,
       createdAtTs |-> IF parsed THEN Millis(created_at.sec) ELSE ZeroTs,
       monthsSinceUpdate |-> IF parsed THEN MonthsSince(diff)
                             ELSE RegistryDefaultMonths,
       downloads |-> rnode.downloads,
       dpm |-> calculate_dpm(rnode.downloads, created_at, t)]

\* Lines 218-220: registry_repos - existing_repos
MissingRepos(existing, by_repo) ==
  DictKeySet(by_repo)
    \ ({normalize_repo_url(existing[i].reference) : i \in DOMAIN existing}
         \ {NoKey})

\* The orders in which Python may iterate over the set S.
Orders(S) ==
  {o \in [1..Cardinality(S) -> S] : \A i, j \in DOMAIN o : o[i] = o[j] => i = j}

\* Lines 189-281: existing_nodes after the merge, the new nodes in the order
\* the set missing_repos was iterated in.
RegistryMerge(existing, rnodes, order, t) ==
  LET registry_by_repo == RegistryByRepo(rnodes, Len(rnodes))
  IN  [i \in DOMAIN existing |->
         RegistryUpdateNode(existing[i], registry_by_repo, t)]
      \o [j \in DOMAIN order |->
            RegistryNewNode(DictGet(registry_by_repo, order[j]), t)]

\* A variant that returns nothing when a page request fails.
DroppedOnFailure(all_nodes) == <<>>

\* Lines 72-80: a failed page request ends the loop, and what the pages
\* before it gave is returned.
KeptOnFailure(all_nodes) == all_nodes

\* main, lines 154-171: load nodes.json or give up.
RegistryStart ==
  /\ pc = "idle"
  /\ runs < MaxRuns
  /\ runs' = runs + 1
  /\ IF nodes_json.exists
     THEN /\ pc' = "reg_pages"
          /\ existing_nodes' = nodes_json.nodes
          /\ reg_page' = 1
     ELSE /\ pc' = "reg_nofile"
          /\ UNCHANGED <<existing_nodes, reg_page>>
  /\ UNCHANGED <<files, clock, now, manager_nodes, nodes_by_repo,
                 sorted_repos, repo_data_map, fd_i, fd_requests,
                 registry_nodes, reg_requests, rmvars, gsvars>>
  /\ UNCHANGED purevars
  /\ UNCHANGED rm_failed

\* fetch_all_registry_nodes, lines 52-77: one turn of the page loop.
RegistryPage ==
  /\ pc = "reg_pages"
  /\ \/ \E data \in RegistryAnswers :
          /\ registry_nodes' = registry_nodes \o data.nodes
          /\ reg_requests' =
               Append(reg_requests, [ok |-> TRUE, nodes |-> data.nodes])
          /\ IF reg_page >= data.totalPages
             THEN pc' = "reg_merge" /\ UNCHANGED reg_page
             ELSE pc' = "reg_pages" /\ reg_page' = reg_page + 1
     \/ /\ pc' = "reg_merge"
        /\ registry_nodes' = KeptOnFailure(registry_nodes)
        /\ reg_requests' =
             Append(reg_requests, [ok |-> FALSE, nodes |-> <<>>])
        /\ UNCHANGED reg_page
  /\ UNCHANGED <<files, clock, runs, now, fdvars, rmvars, gsvars>>
  /\ UNCHANGED purevars
  /\ UNCHANGED rm_failed

\* main, lines 176-319: merge and write nodes.json / nodes.js.
RegistryWrite ==
  /\ pc = "reg_merge"
  /\ now' = clock
  /\ \E order \in Orders(MissingRepos(existing_nodes,
                           RegistryByRepo(registry_nodes, Len(registry_nodes)))) :
       existing_nodes' = RegistryMerge(existing_nodes, registry_nodes, order, clock)
  /\ nodes_json' = Bundle(existing_nodes')
  /\ pc' = "reg_done"
  /\ UNCHANGED <<data_file, readmes_file, summaries_file, clock, runs,
                 manager_nodes, nodes_by_repo, sorted_repos, repo_data_map,
                 fd_i, fd_requests, regvars, rmvars, gsvars>>
  /\ UNCHANGED purevars
  /\ UNCHANGED rm_failed

(***************************************************************************)
(* fetch_readmes.py                                                        *)
(***************************************************************************)
GRAPHQL_BATCH_SIZE == 50

SaveEveryBatches == 10

\* The cache value None ("no README") and a sanitized text.
NullEntry == [null |-> TRUE]

TextEntry(text) == [null |-> FALSE, text |-> text]

\* s repeated n times
Repeat(s, n) == [i \in 1..(n * Len(s)) |-> s[((i - 1) % Len(s)) + 1]]

\* "# <b>Bar</b>\n" followed by twelve times "node "
LongReadme ==
  <<"#", " ", "<", "b", ">", "B", "a", "r", "<", "/", "b", ">", "\n">>
    \o Repeat(<<"n", "o", "d", "e", " ">>, 12)

\* "**hi**"
ShortReadme == <<"*", "*", "h", "i", "*", "*">>

\* What the endpoint answers for one alias: null (no such repository), or the
\* texts of README.md, readme.md and Readme.md (<<>>: no such file).
NoSuchRepo == [found |-> FALSE]

RepoReadmes(r1, r2, r3) == [found |-> TRUE, readmes |-> <<r1, r2, r3>>]

ReadmeAnswers ==
  { NoSuchRepo,
    RepoReadmes(<<>>, <<>>, <<>>),
    RepoReadmes(<<>>, LongReadme, ShortReadme),
    RepoReadmes(ShortReadme, LongReadme, <<>>) }

LoadCache(file) == IF file.exists THEN file.cache ELSE <<>>

\* Lines 199-206: all_repos, keyed by f"{parts[0]}/{parts[1]}".  A name
\* stands where the first node that has it put it; the parts that later
\* nodes assign to it are the same.
AllRepos(nodes) ==
  LET parts == <<>> \o [i \in DOMAIN nodes |-> get_repo_path(nodes[i].reference)]
      names == <<>> \o [i \in DOMAIN nodes |->
                         IF parts[i].found THEN FullName(parts[i]) ELSE <<>>]
      IsNewName(i) ==
        parts[i].found /\ \A j \in 1..(i - 1) : names[j] # names[i]
      firsts == SelectSeq([i \in DOMAIN nodes |-> i], IsNewName)
  IN  [j \in DOMAIN firsts |-> [k |-> names[firsts[j]], v |-> parts[firsts[j]]]]

\* A variant that fetches every repo, cached or not.
ReposNeedingReadmeAll(nodes, cache) ==
  DictKeys(AllRepos(nodes))

\* Lines 209, 220: list(repos_needing_readme.keys())
ReposNeedingReadme(nodes, cache) ==
  LET names == DictKeys(AllRepos(nodes))
      \* k not in readme_cache
      NotCachedYet(name) == ~DictHas(cache, name)
  IN  SelectSeq(names, NotCachedYet)

\* Lines 241-259: the cache value for one alias of an answered batch
ReadmeEntry(repo_data) ==
  LET found == IF repo_data.found
               THEN {k \in 1..3 : repo_data.readmes[k] # <<>>}
               ELSE {}
      cleaned == process_readme(repo_data.readmes[Min(found)])
  IN  IF found = {} THEN NullEntry
      ELSE IF Len(cleaned) > MinReadmeChars THEN TextEntry(cleaned)
      ELSE NullEntry

\* The cache values that the answers of the endpoint give
ReadmeEntries == {ReadmeEntry(repo_data) : repo_data \in ReadmeAnswers}

\* The cache value of a repo whose README.md is LongReadme
LongEntry == ReadmeEntry(RepoReadmes(LongReadme, <<>>, <<>>))

\* The largest batch for which every mix of answers is taken
MaxMixedBatch == 4

\* What an answered batch gives for its names: any mix of the cache values
\* for a small batch; in a larger one no repo holds a README.
BatchEntries(batch) ==
  IF Len(batch) <= MaxMixedBatch
  THEN [SeqToSet(batch) -> ReadmeEntries]
  ELSE {[name \in SeqToSet(batch) |-> NullEntry]}

\* A variant that never saves inside the loop.
SaveNever(batch_num) == batch_num < 0

\* Line 262: batch_num % 10 == 0
SaveDue(batch_num) == batch_num % SaveEveryBatches = 0

\* Lines 238-259: the cache after the entries for the names of a batch
\* (readme_cache[full_name] = ... for each of its distinct names: a name the
\* cache holds keeps its place, the others are appended in batch order).
StoreBatch(cache, batch, entries) ==
  LET names == SeqToSet(batch)
      IsNewKey(name) == ~DictHas(cache, name)
      added == SelectSeq(batch, IsNewKey)
  IN  [i \in DOMAIN cache |->
         IF cache[i].k \in names
         THEN [k |-> cache[i].k, v |-> entries[cache[i].k]]
         ELSE cache[i]]
      \o [j \in DOMAIN added |-> [k |-> added[j], v |-> entries[added[j]]]]

\* A variant that marks the names of an unanswered batch as having no README.
UnansweredMarked(cache, batch) ==
  StoreBatch(cache, batch, [name \in SeqToSet(batch) |-> NullEntry])

\* Line 237: when the request gave no result, or one without 'data', nothing
\* is stored for the names of the batch.
Unanswered(cache, batch) == cache

\* main, lines 183-220
ReadmesStart ==
  /\ pc = "idle"
  /\ runs < MaxRuns
  /\ runs' = runs + 1
  /\ IF ~nodes_json.exists
     THEN /\ pc' = "rm_nofile"
          /\ UNCHANGED <<readme_cache, rm_loaded, repos_list>>
     ELSE /\ readme_cache' = LoadCache(readmes_file)
          /\ rm_loaded' = readme_cache'
          /\ repos_list' = ReposNeedingReadme(nodes_json.nodes, readme_cache')
          /\ pc' = IF repos_list' = <<>> THEN "rm_cached" ELSE "rm_fetch"
  /\ rm_failed' = {}
  /\ UNCHANGED <<files, clock, now, fdvars, regvars, rm_i, rm_requested,
                 gsvars>>
  /\ UNCHANGED purevars

\* main, lines 222-265: one turn of the batch loop.
ReadmesBatch ==
  /\ pc = "rm_fetch"
  /\ rm_i < Len(repos_list)
  /\ LET batch == BatchAt(repos_list, rm_i, GRAPHQL_BATCH_SIZE)
         batch_num == (rm_i \div GRAPHQL_BATCH_SIZE) + 1
     IN  /\ rm_requested' = rm_requested \cup SeqToSet(batch)
         /\ \/ \E entries \in BatchEntries(batch) :
                 /\ readme_cache' = StoreBatch(readme_cache, batch, entries)
                 /\ UNCHANGED rm_failed
            \/ /\ readme_cache' = Unanswered(readme_cache, batch)
               /\ rm_failed' = rm_failed \cup SeqToSet(batch)
         /\ readmes_file' = IF SaveDue(batch_num)
                            THEN [exists |-> TRUE, cache |-> readme_cache']
                            ELSE readmes_file
  /\ rm_i' = rm_i + GRAPHQL_BATCH_SIZE
  /\ UNCHANGED <<nodes_json, data_file, summaries_file, clock, runs, pc,
                 now, fdvars, regvars, rm_loaded, repos_list, gsvars>>
  /\ UNCHANGED purevars

\* main, lines 267-268: the final save.
ReadmesFinish ==
  /\ pc = "rm_fetch"
  /\ rm_i >= Len(repos_list)
  /\ readmes_file' = [exists |-> TRUE, cache |-> readme_cache]
  /\ pc' = "rm_done"
  /\ UNCHANGED <<nodes_json, data_file, summaries_file, clock, runs,
                 memory>>
  /\ UNCHANGED purevars
  /\ UNCHANGED rm_failed

(***************************************************************************)
(* generate_summaries.py                                                   *)
(***************************************************************************)
\* A summary cache value: the structured object or a legacy raw string.
DictSummary == [kind |-> "dict", categories |-> <<"utility">>, summary |-> "does things"]

StrSummary == [kind |-> "str", text |-> "an old summary"]

Name_FooBar == <<"F","o","o","/","B","a","r">>

\* A summaries_cache.json written by the earlier version of the script.
LegacySummaries ==
  [exists |-> TRUE, cache |-> <<[k |-> Name_FooBar, v |-> StrSummary]>>]

\* What call_github_models returns (lines 97-127): the parsed object, None,
\* "RATE_LIMITED" or "AUTH_ERROR".
CallResults == {"dict", "None", "RATE_LIMITED", "AUTH_ERROR"}

\* A variant that never calls again.
CallsWithoutRetry(first, second) == <<first>>

\* Lines 197-200: what the calls of one turn return.  first is what the call
\* returns, second what the repeated call returns after "RATE_LIMITED".
Calls(first, second) ==
  IF first = "RATE_LIMITED" THEN <<first, second>> ELSE <<first>>

\* A variant that goes on after "AUTH_ERROR".
StopsNever(result) == FALSE

\* Lines 202-204: the result that ends the loop
Stops(result) == result = "AUTH_ERROR"

IsValidReadme(e) == ~e.v.null

\* Line 166
ValidReadmes(cache) == SelectSeq(cache, IsValidReadme)

\* A variant that reprocesses every README, summarized or not.
NeedsProcessingAlways(cache, name) ==
  DictHas(cache, name) \/ ~DictHas(cache, name)

\* Lines 176-180: whether a README's repo is (re)processed
NeedsProcessing(cache, name) ==
  \/ ~DictHas(cache, name)
  \/ DictGet(cache, name).kind = "str"

\* Lines 174-180
ReposToProcess(valid, cache) ==
  LET todo == {i \in DOMAIN valid : NeedsProcessing(cache, valid[i].k)}
      Pick(j) == CHOOSE i \in todo : Cardinality({k \in todo : k <= i}) = j
  IN  [j \in 1..Cardinality(todo) |->
         [name |-> valid[Pick(j)].k, text |-> valid[Pick(j)].v.text]]

\* main, lines 152-191
SummariesStart ==
  /\ pc = "idle"
  /\ runs < MaxRuns
  /\ runs' = runs + 1
  /\ IF LoadCache(readmes_file) = <<>>
     THEN /\ pc' = "gs_noreadmes"
          /\ UNCHANGED <<summaries_cache, gs_loaded, repos_to_process>>
     ELSE /\ summaries_cache' = LoadCache(summaries_file)
          /\ gs_loaded' = summaries_cache'
          /\ repos_to_process' =
               ReposToProcess(ValidReadmes(LoadCache(readmes_file)),
                              summaries_cache')
          /\ pc' = IF repos_to_process' = <<>> THEN "gs_nothing" ELSE "gs_items"
  /\ UNCHANGED <<files, clock, now, fdvars, regvars, rmvars, gs_i,
                 gs_sent, gs_errors, gs_results>>
  /\ UNCHANGED purevars
  /\ UNCHANGED rm_failed

\* main, lines 193-216: one turn of the item loop.  A call that returns
\* "RATE_LIMITED" has slept the 60 seconds of lines 117-119 before it
\* returns.
SummariesItem ==
  /\ pc = "gs_items"
  /\ gs_i < Len(repos_to_process)
  /\ \E first, second \in CallResults :
       LET item == repos_to_process[gs_i + 1]
           calls == Calls(first, second)
           result == calls[Len(calls)]
       IN  /\ first # "RATE_LIMITED" => second = first
           /\ gs_sent' = gs_sent \o [c \in DOMAIN calls |-> item.name]
           /\ gs_results' = gs_results \o calls
           /\ pc' = IF Stops(result) THEN "gs_auth" ELSE "gs_items"
           /\ summaries_cache' = IF result = "dict"
                                 THEN DictPut(summaries_cache, item.name, DictSummary)
                                 ELSE summaries_cache
           /\ summaries_file' = IF result = "dict"
                                THEN [exists |-> TRUE, cache |-> summaries_cache']
                                ELSE summaries_file
           /\ gs_errors' = IF result \in {"None", "RATE_LIMITED"}
                           THEN gs_errors + 1 ELSE gs_errors
  /\ gs_i' = gs_i + 1
  /\ UNCHANGED <<nodes_json, data_file, readmes_file, clock, runs, now,
                 fdvars, regvars, rmvars, gs_loaded, repos_to_process>>
  /\ UNCHANGED purevars
  /\ UNCHANGED rm_failed

\* main, lines 218-226: the loop has taken every item.
SummariesFinish ==
  /\ pc = "gs_items"
  /\ gs_i >= Len(repos_to_process)
  /\ pc' = "gs_done"
  /\ UNCHANGED <<files, clock, runs, memory>>
  /\ UNCHANGED purevars
  /\ UNCHANGED rm_failed

\* The script ends and its memory goes; the next run is a month later.
Exit ==
  /\ pc \in {"fd_nodata", "fd_done", "reg_nofile", "reg_done",
            "rm_nofile", "rm_cached", "rm_done",
            "gs_noreadmes", "gs_nothing", "gs_done", "gs_auth"}
  /\ pc' = "idle"
  /\ NoMemory
  /\ clock' = clock + TickSeconds
  /\ UNCHANGED <<files, runs>>
  /\ UNCHANGED purevars
  /\ UNCHANGED rm_failed

\* No script runs.
InitMemory ==
  /\ pc = "idle"
  /\ now = 0
  /\ existing_nodes = <<>>
  /\ manager_nodes = <<>>
  /\ nodes_by_repo = <<>>
  /\ sorted_repos = <<>>
  /\ repo_data_map = <<>>
  /\ fd_i = 0
  /\ fd_requests = <<>>
  /\ registry_nodes = <<>>
  /\ reg_page = 0
  /\ reg_requests = <<>>
  /\ readme_cache = <<>>
  /\ rm_loaded = <<>>
  /\ repos_list = <<>>
  /\ rm_i = 0
  /\ rm_requested = {}
  /\ summaries_cache = <<>>
  /\ gs_loaded = <<>>
  /\ repos_to_process = <<>>
  /\ gs_i = 0
  /\ gs_sent = <<>>
  /\ gs_errors = 0
  /\ gs_results = <<>>

\* The working directory before the first run: no generated file, or only a
\* summaries_cache.json that the earlier version of the script wrote.
\* No text is given to process_readme
InitNoText ==
  /\ raw_text = <<>>
  /\ san_pc = "off"
  /\ san_text = <<>>
  /\ first_pass = <<>>
  /\ second_pass = <<>>

\* No reference is given to the key functions
InitNoUrl ==
  /\ url = <<>>
  /\ url_pc = "off"
  /\ repo_path = NoRepo
  /\ registry_key = NoKey

InitPipeline ==
  /\ nodes_json = NoFile
  /\ data_file = NoFile
  /\ readmes_file = NoFile
  /\ summaries_file \in {NoFile, LegacySummaries}
  /\ clock = Now0
  /\ runs = 0
  /\ rm_failed = {}
  /\ InitMemory

Init ==
  /\ InitPipeline
  /\ InitNoText
  /\ InitNoUrl

Next ==
  \/ FetchDataStart
  \/ FetchDataBatch
  \/ FetchDataWrite
  \/ RegistryStart
  \/ RegistryPage
  \/ RegistryWrite
  \/ ReadmesStart
  \/ ReadmesBatch
  \/ ReadmesFinish
  \/ SummariesStart
  \/ SummariesItem
  \/ SummariesFinish
  \/ Exit

Spec == Init /\ [][Next]_vars

(***************************************************************************)
(* The text sanitizer on its own: process_readme applied to a text, and    *)
(* again to its own output.                                                *)
(***************************************************************************)
MaxLen == 4

SanAlphabet == {"a", " ", "-", "!", "*", "1", ".", Backtick}

\* Every text over SanAlphabet of at most MaxLen characters
ShortTexts == UNION {[1..n -> SanAlphabet] : n \in 0..MaxLen}

\* A word of head letters, a space, a word of tail letters
TwoWords(head, tail) ==
  Repeat(<<"a">>, head) \o <<" ">> \o Repeat(<<"a">>, tail)

\* Texts around MAX_README_CHARS whose only space stands near the margin.
LongTexts ==
  {TwoWords(head, tail) :
     head \in (MAX_README_CHARS - TruncateMargin - 2)..(MAX_README_CHARS - TruncateMargin + 2)
              \cup {MAX_README_CHARS - 2, MAX_README_CHARS - 1, MAX_README_CHARS},
     tail \in {MAX_README_CHARS - 2 - (MAX_README_CHARS - TruncateMargin),
               TruncateMargin, TruncateMargin + 5}}
  \cup {<<"#", " ">> \o TwoWords(MAX_README_CHARS - 50, 10) \o <<" ", "*", "*", "a", "*", "*">>,
        Repeat(<<"a">>, MAX_README_CHARS + 1)}

SanInit ==
  /\ InitPipeline
  /\ summaries_file = NoFile
  /\ raw_text \in ShortTexts \cup LongTexts
  /\ san_pc = "raw"
  /\ san_text = <<>>
  /\ first_pass = <<>>
  /\ second_pass = <<>>
  /\ InitNoUrl

Sanitize ==
  /\ san_pc = "raw"
  /\ san_text' = CleanText(raw_text)
  /\ first_pass' = process_readme(raw_text)
  /\ san_pc' = "once"
  /\ UNCHANGED <<files, clock, runs, pc, memory, rm_failed, raw_text,
                 second_pass, urlvars>>

Resanitize ==
  /\ san_pc = "once"
  /\ second_pass' = process_readme(first_pass)
  /\ san_pc' = "twice"
  /\ UNCHANGED <<files, clock, runs, pc, memory, rm_failed, raw_text,
                 san_text, first_pass, urlvars>>

SanNext ==
  \/ Sanitize
  \/ Resanitize

SanSpec == SanInit /\ [][SanNext]_vars

(***************************************************************************)
(* The two key functions on their own: get_repo_path and                   *)
(* normalize_repo_url applied to a reference.                              *)
(***************************************************************************)
UrlPrefixes == {<<>>, <<"h","t","t","p","s",":","/","/">>, <<"g","i","t","+","h","t","t","p","s",":","/","/","w","w","w",".">>}

UrlOwners == {<<"o">>, <<"F","o","o">>, <<"a","-","b">>}

\* Repository names, none ending in .git
UrlNames == {<<"r">>, <<"B","a","r">>, <<"b",".","c">>, <<"x","_","y">>}

UrlSuffixes == {<<>>, DotGit}

\* What follows the name: nothing or further path segments
UrlTrails == {<<>>, <<"/">>, <<"/","t","r","e","e","/","m","a","i","n">>, <<"/","b","l","o","b","/","m","a","i","n","/","a",".","g","i","t">>}

\* prefix, then github.com/owner/name, the suffix and the trail
UrlOf(prefix, owner, name, suffix, trail) ==
  prefix \o GithubMarker \o owner \o <<"/">> \o name \o suffix \o trail

GithubUrls ==
  {UrlOf(prefix, owner, name, suffix, trail) :
     prefix \in UrlPrefixes, owner \in UrlOwners, name \in UrlNames,
     suffix \in UrlSuffixes, trail \in UrlTrails}

\* Whether the text holds github.com/ somewhere
HasMarker(text) == \E i \in 1..Len(text) : HasAt(text, i, GithubMarker)

\* The empty reference, references to other hosts, and references that end
\* before a name is given
OtherUrls ==
  {<<>>, Url_GitLab, Url_HostCase,
   <<"g","i","t","@","g","i","t","h","u","b",".","c","o","m",":","o","/","r",".","g","i","t">>,
   <<"g","i","t","h","u","b",".","c","o","m","/">>,
   <<"h","t","t","p","s",":","/","/","g","i","t","h","u","b",".","c","o","m","/","o">>,
   <<"h","t","t","p","s",":","/","/","g","i","t","h","u","b",".","c","o","m","/","o","/">>,
   <<"h","t","t","p","s",":","/","/","g","i","t","h","u","b",".","c","o","m","/","/","r">>}

UrlInit ==
  /\ InitPipeline
  /\ summaries_file = NoFile
  /\ InitNoText
  /\ url \in GithubUrls \cup OtherUrls
  /\ url_pc = "given"
  /\ repo_path = NoRepo
  /\ registry_key = NoKey

\* fetch_data / fetch_readmes: parts = get_repo_path(ref)
ResolveUrl ==
  /\ url_pc = "given"
  /\ repo_path' = get_repo_path(url)
  /\ url_pc' = "resolved"
  /\ UNCHANGED <<files, clock, runs, pc, memory, rm_failed, sanvars, url,
                 registry_key>>

\* fetch_registry: normalized = normalize_repo_url(ref)
NormalizeUrl ==
  /\ url_pc = "resolved"
  /\ registry_key' = normalize_repo_url(url)
  /\ url_pc' = "keyed"
  /\ UNCHANGED <<files, clock, runs, pc, memory, rm_failed, sanvars, url,
                 repo_path>>

UrlNext ==
  \/ ResolveUrl
  \/ NormalizeUrl

UrlSpec == UrlInit /\ [][UrlNext]_vars

(***************************************************************************)
(* One run of fetch_readmes or generate_summaries over a nodes.json of     *)
(* many repos, so that fetch_readmes saves inside its loop.                *)
(***************************************************************************)
BulkRepos == 501

FewRepos == 2

DigitChars == <<"0", "1", "2", "3", "4", "5", "6", "7", "8", "9">>

\* str(k)
RECURSIVE Decimal(_)
Decimal(k) ==
  IF k < 10 THEN <<DigitChars[k + 1]>>
  ELSE Decimal(k \div 10) \o <<DigitChars[(k % 10) + 1]>>

\* "o/r<k>"
BulkName(k) == <<"o", "/", "r">> \o Decimal(k)

\* "https://github.com/o/r<k>"
BulkUrl(k) ==
  <<"h","t","t","p","s",":","/","/","g","i","t","h","u","b",".","c","o","m","/">>
    \o BulkName(k)

\* A record of nodes.json as fetch_data writes it for a repo the endpoint
\* does not know.
BulkNode(k) ==
  [author |-> "o", title |-> <<"r">> \o Decimal(k), reference |-> BulkUrl(k),
   description |-> "", id |-> "", downloads |-> 0, dpm |-> Zero, stars |-> 0,
   spm |-> Zero, lastUpdateTs |-> ZeroTs, createdAtTs |-> ZeroTs,
   monthsSinceUpdate |-> MaxMonths]

BulkNodes(n) == [k \in 1..n |-> BulkNode(k)]

\* The readmes_cache.json fetch_readmes writes when each of n repos holds
\* LongReadme.
BulkReadmes(n) ==
  [exists |-> TRUE,
   cache |-> [k \in 1..n |->
                [k |-> BulkName(k), v |-> LongEntry]]]

\* A summaries_cache.json with a legacy raw string for the first repo and a
\* structured object for the second.
BulkSummaries ==
  [exists |-> TRUE,
   cache |-> <<[k |-> BulkName(1), v |-> StrSummary],
               [k |-> BulkName(2), v |-> DictSummary]>>]

\* The working directory before the last run of the pipeline: nodes.json
\* holds a few repos or many (of nodes.json, the records are all that
\* fetch_readmes reads).
SaveInit ==
  /\ \E n \in {FewRepos, BulkRepos} :
       /\ nodes_json = [exists |-> TRUE, nodes |-> BulkNodes(n)]
       /\ readmes_file \in
            {NoFile} \cup (IF n = FewRepos THEN {BulkReadmes(n)} ELSE {})
       /\ summaries_file \in
            {NoFile} \cup (IF n = FewRepos THEN {BulkSummaries} ELSE {})
  /\ data_file = NoFile
  /\ clock = Now0
  /\ runs = MaxRuns - 1
  /\ rm_failed = {}
  /\ InitMemory
  /\ InitNoText
  /\ InitNoUrl

SaveNext ==
  \/ ReadmesStart
  \/ ReadmesBatch
  \/ ReadmesFinish
  \/ SummariesStart
  \/ SummariesItem
  \/ SummariesFinish
  \/ Exit

SaveSpec == SaveInit /\ [][SaveNext]_vars

(***************************************************************************)
(* One run of fetch_data over a nodes.json of more repos than a batch      *)
(* holds, so that the batch loop takes more than one turn.                 *)
(***************************************************************************)
StatsRepos == 101

\* The records fetch_data wrote a month before when the endpoint knew each
\* of the n repos.
LiveNodes(n) ==
  [k \in 1..n |->
     ConsolidateNode(BulkNode(k), GithubAnswer("live", BulkName(k)),
                     Now0 - TickSeconds)]

StatsInit ==
  /\ nodes_json \in {Bundle(BulkNodes(StatsRepos)), Bundle(LiveNodes(StatsRepos))}
  /\ data_file = NoFile
  /\ readmes_file = NoFile
  /\ summaries_file = NoFile
  /\ clock = Now0
  /\ runs = MaxRuns - 1
  /\ rm_failed = {}
  /\ InitMemory
  /\ InitNoText
  /\ InitNoUrl

StatsNext ==
  \/ FetchDataStart
  \/ FetchDataBatch
  \/ FetchDataWrite
  \/ Exit

StatsSpec == StatsInit /\ [][StatsNext]_vars

(***************************************************************************)
(* Two runs of fetch_readmes over a nodes.json of more repos than two      *)
(* batches hold, so that one run has answered and unanswered batches and   *)
(* the next run meets what the first one left.                             *)
(***************************************************************************)
RetryRepos == 101

RetryInit ==
  /\ nodes_json = [exists |-> TRUE, nodes |-> BulkNodes(RetryRepos)]
  /\ data_file = NoFile
  /\ readmes_file \in {NoFile, BulkReadmes(FewRepos)}
  /\ summaries_file = NoFile
  /\ clock = Now0
  /\ runs = MaxRuns - 2
  /\ rm_failed = {}
  /\ InitMemory
  /\ InitNoText
  /\ InitNoUrl

RetryNext ==
  \/ ReadmesStart
  \/ ReadmesBatch
  \/ ReadmesFinish
  \/ Exit

RetrySpec == RetryInit /\ [][RetryNext]_vars

(***************************************************************************)
(* Properties                                                              *)
(***************************************************************************)
\* The record old is in the bundle nodes, with zero-valued derived metrics
\* when its reference holds no recognizable GitHub URL.
KeptIn(old, nodes) ==
  \E j \in DOMAIN nodes :
    /\ nodes[j].reference = old.reference
    /\ nodes[j].id = old.id
    /\ ~get_repo_path(old.reference).found =>
         /\ nodes[j].stars = 0
         /\ nodes[j].spm = Zero
         /\ nodes[j].lastUpdateTs = ZeroTs
         /\ nodes[j].createdAtTs = ZeroTs

\* C1: when fetch_data has written nodes.json, every record of the
\* nodes.json it read at its start is in the written one, and a record whose
\* reference holds no recognizable GitHub URL is kept with zero-valued stars,
\* spm, lastUpdateTs and createdAtTs.
C1_NoRecordRemoved ==
  pc = "fd_done" =>
    \A i \in DOMAIN existing_nodes : KeptIn(existing_nodes[i], nodes_json.nodes)

\* C2: a registry merge leaves stars, lastUpdateTs and createdAtTs of every
\* record that nodes.json held before it as they were, whether the record
\* matches a registry entry or not.
C2_FieldOwnership ==
  [][pc = "reg_merge" /\ pc' = "reg_done" =>
       \A i \in DOMAIN nodes_json.nodes :
         /\ i \in DOMAIN nodes_json'.nodes
         /\ nodes_json'.nodes[i].reference = nodes_json.nodes[i].reference
         /\ nodes_json'.nodes[i].stars = nodes_json.nodes[i].stars
         /\ nodes_json'.nodes[i].lastUpdateTs = nodes_json.nodes[i].lastUpdateTs
         /\ nodes_json'.nodes[i].createdAtTs = nodes_json.nodes[i].createdAtTs]_vars

\* A registry merge has been written over a record with GitHub stars that
\* matches a registry entry reporting another star count, and over a record
\* with GitHub stars that matches none.
C2_Witness ==
  /\ pc = "reg_done"
  /\ \E i, j \in DOMAIN nodes_json.nodes :
       /\ nodes_json.nodes[i].stars = 120
       /\ nodes_json.nodes[i].downloads = R_foobar.downloads
       /\ R_foobar.github_stars # 120
       /\ nodes_json.nodes[j].stars = 7
       /\ nodes_json.nodes[j].downloads = 0

\* C3: in every nodes.json written by fetch_data or fetch_registry, the
\* monthsSinceUpdate of every record is at most the freshness cap of 18,
\* registry-only records without a parseable creation time included.
C3_FreshnessCap ==
  nodes_json.exists =>
    \A i \in DOMAIN nodes_json.nodes :
      nodes_json.nodes[i].monthsSinceUpdate <= MaxMonths

\* The scenario of C4: fetch_data has run on no earlier nodes.json with the
\* one upstream entry Foo/Bar.git, the endpoint answering stars 120, pushedAt
\* 30 days and createdAt 400 days before now.
C4_Scenario ==
  /\ pc = "fd_done"
  /\ existing_nodes = <<>>
  /\ manager_nodes = <<M_FooBar>>
  /\ RepoDataGet(repo_data_map, Key_foobar) =
       [found |-> TRUE, stars |-> 120,
        pushedAt |-> At(now - 30 * DaySeconds),
        createdAt |-> At(now - 400 * DaySeconds)]

\* What C4 states of the output record, months being its monthsSinceUpdate.
C4_Record(months) ==
  /\ Len(nodes_json.nodes) = 1
  /\ nodes_json.nodes[1].reference = Url_FooBarGit
  /\ nodes_json.nodes[1].stars = 120
  /\ nodes_json.nodes[1].downloads = 0
  /\ nodes_json.nodes[1].dpm = Zero
  /\ nodes_json.nodes[1].monthsSinceUpdate = months
  \* 120 / (400 days / 30.44 days)
  /\ nodes_json.nodes[1].spm = Ratio(120 * 3044, 400 * 100)

\* C4 as the spec states it: monthsSinceUpdate = 1.
C4_ExampleAsStated == C4_Scenario => C4_Record(1)

\* C4, amended: in the example scenario the output record has stars = 120,
\* downloads = 0, dpm = 0, spm = 120 / (400 days / 30.44) and
\* monthsSinceUpdate = 0, the whole months in 30 days of 30.44-day months.
C4_Example == C4_Scenario => C4_Record(0)

\* C5: for every input text, process_readme applied to its own output gives
\* that output again.
C5_SanitizerIdempotent ==
  san_pc = "twice" => second_pass = first_pass

\* The positions (counted from 1) of the spaces among the last margin
\* characters of the budget-length prefix of the cleaned text.
C6_TailSpaces(margin) ==
  {k \in (MAX_README_CHARS - margin + 1)..MAX_README_CHARS :
     k <= Len(san_text) /\ san_text[k] = " "}

\* The output is within the budget, and a cleaned text longer than the budget
\* with a space among the last margin characters of its budget-length prefix
\* is cut at the last such space.
C6_CutAtSpace(margin) ==
  /\ Len(first_pass) <= MAX_README_CHARS
  /\ Len(san_text) > MAX_README_CHARS /\ C6_TailSpaces(margin) # {} =>
       first_pass = SubSeq(san_text, 1, Max(C6_TailSpaces(margin)) - 1)

\* C6 as the spec states it: the margin is the final 100 characters.
C6_TruncationAsStated ==
  san_pc \in {"once", "twice"} => C6_CutAtSpace(TruncateMargin)

\* C6, amended: the output of process_readme never exceeds 2000 characters,
\* and when the cleaned text is longer and a space exists within the final 99
\* characters of its 2000-character prefix, the output is cut at the last
\* such space.
C6_Truncation ==
  san_pc \in {"once", "twice"} => C6_CutAtSpace(TruncateMargin - 1)

\* A text longer than the budget has been cut at a space of the margin.
C6_Witness ==
  /\ san_pc = "once"
  /\ Len(san_text) > MAX_README_CHARS
  /\ C6_TailSpaces(TruncateMargin - 1) # {}
  /\ Len(first_pass) < MAX_README_CHARS
  /\ Len(first_pass) > MAX_README_CHARS - TruncateMargin

\* C7: every key of a map keyed by repo identity (the merged record map,
\* the README cache in memory and as written, and the entries a run adds to
\* the summary cache) is the lowercase owner/name.
C7_LowercaseKeys ==
  \A key \in DictKeySet(nodes_by_repo) \cup DictKeySet(readme_cache)
             \cup DictKeySet(LoadCache(readmes_file))
             \cup (DictKeySet(summaries_cache) \ DictKeySet(gs_loaded)) :
    key = Lower(key)

\* The record set of nodes.json after the GitHub-stats merge is applied to
\* it once more, with the same upstream list, fetched data and clock reading.
C8_MergedAgain ==
  Consolidate(MergeManager(nodes_json.nodes, manager_nodes), repo_data_map, now)

\* C8: when fetch_data has written nodes.json, applying its GitHub-stats
\* merge once more to the written records with the same fetched data and
\* clock reading gives each record the same stars, spm, lastUpdateTs,
\* createdAtTs and monthsSinceUpdate.
C8_MergeIdempotent ==
  pc = "fd_done" =>
    LET first == nodes_json.nodes
        again == C8_MergedAgain
    IN  /\ Len(again) = Len(first)
        /\ \A i \in DOMAIN first :
             /\ again[i].reference = first[i].reference
             /\ again[i].stars = first[i].stars
             /\ again[i].spm = first[i].spm
             /\ again[i].lastUpdateTs = first[i].lastUpdateTs
             /\ again[i].createdAtTs = first[i].createdAtTs
             /\ again[i].monthsSinceUpdate = first[i].monthsSinceUpdate

\* fetch_data has merged live GitHub data into records it had read from an
\* earlier nodes.json.
C8_Witness ==
  /\ pc = "fd_done"
  /\ existing_nodes # <<>>
  /\ \E i \in DOMAIN nodes_json.nodes :
       /\ nodes_json.nodes[i].stars = 120
       /\ nodes_json.nodes[i].spm # Zero
       /\ nodes_json.nodes[i].monthsSinceUpdate < MaxMonths

\* C9: during a fetch_readmes run, a key that readmes_cache.json held at the
\* start of the run, the null marker included, is in no fetch batch, and its
\* entry stays as it was, in memory and in the file the run writes.
C9_ReadmeMemoization ==
  pc \in {"rm_fetch", "rm_cached", "rm_done"} =>
    \A i \in DOMAIN rm_loaded :
      /\ rm_loaded[i].k \notin rm_requested
      /\ i \in DOMAIN readme_cache
      /\ readme_cache[i] = rm_loaded[i]
      /\ i \in DOMAIN LoadCache(readmes_file)
      /\ LoadCache(readmes_file)[i] = rm_loaded[i]

\* A run that started with a null marker and a text in its cache has fetched
\* a batch of other repos and written the cache.
C9_Witness ==
  /\ pc = "rm_done"
  /\ rm_requested # {}
  /\ \E i, j \in DOMAIN rm_loaded :
       rm_loaded[i].v = NullEntry /\ ~rm_loaded[j].v.null
  /\ Len(readme_cache) > Len(rm_loaded)

\* The keys generate_summaries is to submit in this run: those with a
\* non-null README entry that the summary cache read at the start of the run
\* lacks or holds as a legacy raw string.
C10_Due ==
  {e.k : e \in {x \in SeqToSet(LoadCache(readmes_file)) :
                  /\ ~x.v.null
                  /\ \/ ~DictHas(gs_loaded, x.k)
                     \/ DictGet(gs_loaded, x.k).kind = "str"}}

\* No submitted key held a structured object in the summary cache read at
\* the start of the run, and each has a non-null README entry.
C10_OnlyDueSubmitted ==
  pc \in {"gs_items", "gs_done", "gs_auth"} =>
    LET due == C10_Due
    IN  \A i \in DOMAIN gs_sent :
          /\ ~(/\ DictHas(gs_loaded, gs_sent[i])
               /\ DictGet(gs_loaded, gs_sent[i]).kind = "dict")
          /\ gs_sent[i] \in due

\* C10 as the spec states it: whenever the run has ended, every key with a
\* non-null README entry that was absent from the summary cache or held a
\* legacy raw string has been submitted.
C10_MemoizationAsStated ==
  /\ C10_OnlyDueSubmitted
  /\ pc \in {"gs_done", "gs_auth", "gs_nothing"} => C10_Due \subseteq SeqToSet(gs_sent)

\* C10, amended: a key whose summary entry is a structured object is never
\* submitted, and a key with a non-null README entry that is absent from the
\* summary cache or holds a legacy raw string is submitted, unless an HTTP
\* 401 answer ends the run before its turn.
C10_Memoization ==
  /\ C10_OnlyDueSubmitted
  /\ pc \in {"gs_done", "gs_nothing"} => C10_Due \subseteq SeqToSet(gs_sent)

\* A run that started with a structured object for one key and a legacy raw
\* string or nothing for another has submitted the latter and ended.
C10_Witness ==
  /\ pc = "gs_done"
  /\ gs_sent # <<>>
  /\ \E i \in DOMAIN gs_loaded : gs_loaded[i].v.kind = "dict"
  /\ \E name \in SeqToSet(gs_sent) :
       \/ ~DictHas(gs_loaded, name)
       \/ DictGet(gs_loaded, name).kind = "str"

\* C11: in a fetch_readmes run the entries that only the memory holds are at
\* most those of 10 batches, the file holding the entries before them, and
\* when the loop has ended the file equals the cache in memory; in a
\* generate_summaries run the file holds every summary the run has stored
\* before the next item is submitted.
C11_BoundedLoss ==
  /\ pc = "rm_fetch" =>
       LET saved == LoadCache(readmes_file)
       IN  /\ Len(saved) <= Len(readme_cache)
           /\ saved = SubSeq(readme_cache, 1, Len(saved))
           /\ Len(readme_cache) - Len(saved)
                <= SaveEveryBatches * GRAPHQL_BATCH_SIZE
  /\ pc = "rm_done" => LoadCache(readmes_file) = readme_cache
  /\ pc \in {"gs_items", "gs_done", "gs_auth"} /\ summaries_cache # gs_loaded =>
       LoadCache(summaries_file) = summaries_cache

\* fetch_readmes has saved inside its loop, and the loop goes on.
C11_Witness ==
  /\ pc = "rm_fetch"
  /\ rm_i < Len(repos_list)
  /\ rm_i >= SaveEveryBatches * GRAPHQL_BATCH_SIZE
  /\ Len(LoadCache(readmes_file)) = SaveEveryBatches * GRAPHQL_BATCH_SIZE

\* The positions of n records, counted from 0
C12_Positions(n) == 0..(n - 1)

\* The list is a permutation of the positions of the records
C12_IsPermutation(list, n) ==
  /\ Len(list) = n
  /\ {list[r] : r \in DOMAIN list} = C12_Positions(n)

\* The <field>_desc and <field>_asc lists of the bundle
C12_Desc(field) ==
  CASE field = "stars" -> nodes_json.sortedIndices.stars_desc
    [] field = "spm" -> nodes_json.sortedIndices.spm_desc
    [] field = "updated" -> nodes_json.sortedIndices.updated_desc
    [] field = "created" -> nodes_json.sortedIndices.created_desc
    [] field = "name" -> nodes_json.sortedIndices.name_desc
    [] field = "downloads" -> nodes_json.sortedIndices.downloads_desc
    [] field = "dpm" -> nodes_json.sortedIndices.dpm_desc

C12_Asc(field) ==
  CASE field = "stars" -> nodes_json.sortedIndices.stars_asc
    [] field = "spm" -> nodes_json.sortedIndices.spm_asc
    [] field = "updated" -> nodes_json.sortedIndices.updated_asc
    [] field = "created" -> nodes_json.sortedIndices.created_asc
    [] field = "name" -> nodes_json.sortedIndices.name_asc
    [] field = "downloads" -> nodes_json.sortedIndices.downloads_asc
    [] field = "dpm" -> nodes_json.sortedIndices.dpm_asc

\* No two records of the bundle have the same value in the field
C12_NoTies(field) ==
  \A i, j \in DOMAIN nodes_json.nodes :
    i # j => \/ KeyLess(nodes_json.nodes, field, i, j)
             \/ KeyLess(nodes_json.nodes, field, j, i)

\* C12: in the nodes.json that fetch_data or fetch_registry has written,
\* every <field>_desc list is a permutation of the record positions along
\* which the field never increases, and when no two records tie in the field
\* the <field>_asc list is the <field>_desc list reversed.
C12_IndexCorrect ==
  pc \in {"fd_done", "reg_done"} =>
    \A field \in SortFields :
      LET nodes == nodes_json.nodes
          n == Len(nodes)
          desc == C12_Desc(field)
          asc == C12_Asc(field)
      IN  /\ C12_IsPermutation(desc, n)
          /\ \A r \in 1..(n - 1) :
               ~KeyLess(nodes, field, desc[r] + 1, desc[r + 1] + 1)
          /\ C12_NoTies(field) => asc = [r \in 1..n |-> desc[n + 1 - r]]

\* A bundle of at least three records has been written without ties in the
\* stars and with ties in the downloads.
C12_Witness ==
  /\ pc \in {"fd_done", "reg_done"}
  /\ Len(nodes_json.nodes) >= 3
  /\ C12_NoTies("stars")
  /\ ~C12_NoTies("downloads")
  /\ nodes_json.sortedIndices.stars_desc # nodes_json.sortedIndices.stars_asc

\* C13: for a reference that holds github.com/owner/name, the name with or
\* without the .git suffix and with or without further path segments,
\* get_repo_path gives the owner and the name without the suffix; for the
\* empty reference and for one that does not hold github.com/ it gives
\* nothing.
C13_Resolver ==
  url_pc \in {"resolved", "keyed"} =>
    /\ \A prefix \in UrlPrefixes, owner \in UrlOwners, name \in UrlNames,
          suffix \in UrlSuffixes, trail \in UrlTrails :
          url = UrlOf(prefix, owner, name, suffix, trail) =>
            repo_path = [found |-> TRUE, owner |-> owner, name |-> name]
    /\ (url = <<>> \/ ~HasMarker(url)) => repo_path = NoRepo

\* A reference with the suffix and further path segments has been resolved.
C13_Witness ==
  /\ url_pc = "resolved"
  /\ \E prefix \in UrlPrefixes, owner \in UrlOwners, name \in UrlNames :
       url = UrlOf(prefix, owner, name, DotGit, <<"/","t","r","e","e","/","m","a","i","n">>)
  /\ repo_path.found

\* C20: for every reference, the key normalize_repo_url gives is the
\* lowercased owner/name that get_repo_path gives, and neither gives a key
\* where the other gives none.
C20_KeysAgree ==
  url_pc = "keyed" =>
    registry_key = (IF repo_path.found THEN RepoKey(repo_path) ELSE NoKey)

\* The fields of a record that fetch_data takes over as they are
C14_Kept(node) ==
  <<node.author, node.title, node.reference, node.description, node.id,
    node.downloads, node.dpm>>

\* The lowercase keys of the references that resolve
C14_Keys(nodes) ==
  {RepoKey(get_repo_path(nodes[i].reference)) :
     i \in {j \in DOMAIN nodes : get_repo_path(nodes[j].reference).found}}

\* The positions of the records with the key
C14_At(nodes, key) ==
  {j \in DOMAIN nodes :
     /\ get_repo_path(nodes[j].reference).found
     /\ RepoKey(get_repo_path(nodes[j].reference)) = key}

\* C14: in the nodes.json a fetch_data run has written, every record that was
\* present with a key holds the author, title, reference, description, id,
\* downloads and dpm it had, whatever the upstream list says for its key; and
\* every key of the upstream list that was absent has exactly one record,
\* taken from the first upstream entry with the key, with downloads 0 and
\* dpm 0.
C14_ExistingWins ==
  pc = "fd_done" =>
    LET out == nodes_json.nodes
        held == C14_Keys(existing_nodes)
        upstream == C14_Keys(manager_nodes)
    IN  /\ \A i \in DOMAIN existing_nodes :
             get_repo_path(existing_nodes[i].reference).found =>
               \E j \in DOMAIN out : C14_Kept(out[j]) = C14_Kept(existing_nodes[i])
        /\ \A key \in upstream \ held :
             LET first == manager_nodes[Min(C14_At(manager_nodes, key))]
             IN  /\ Cardinality(C14_At(out, key)) = 1
                 /\ \A j \in C14_At(out, key) :
                      C14_Kept(out[j]) =
                        <<first.author, first.title, first.reference,
                          first.description, first.id, 0, Zero>>

\* A run has been written in which the upstream list names a record that was
\* present, with another title and reference, and a key that was absent.
C14_Witness ==
  /\ pc = "fd_done"
  /\ \E i \in DOMAIN existing_nodes, m \in DOMAIN manager_nodes :
       /\ get_repo_path(existing_nodes[i].reference).found
       /\ C14_At(manager_nodes, RepoKey(get_repo_path(existing_nodes[i].reference)))
            = {m}
       /\ manager_nodes[m].title # existing_nodes[i].title
       /\ manager_nodes[m].reference # existing_nodes[i].reference
       /\ existing_nodes[i].downloads > 0
  /\ C14_Keys(manager_nodes) \ C14_Keys(existing_nodes) # {}

\* The positions of the registry entries whose repository has the key
C15_Entries(key) ==
  {n \in DOMAIN registry_nodes :
     normalize_repo_url(registry_nodes[n].repository) = key}

\* C15: when fetch_registry writes nodes.json, every record the file held
\* whose normalized key is that of a registry entry gets the download count of
\* the entry (the last one fetched with the key) and the dpm computed from
\* the count and the entry's creation date; every record the file held whose
\* key no entry has, or that has no key, gets downloads 0 and dpm 0.
C15_RegistryCounts ==
  [][pc = "reg_merge" /\ pc' = "reg_done" =>
       \A i \in DOMAIN nodes_json.nodes :
         LET key == normalize_repo_url(nodes_json.nodes[i].reference)
             entries == C15_Entries(key)
             after == nodes_json'.nodes[i]
         IN  IF key # NoKey /\ entries # {}
             THEN LET rnode == registry_nodes[Max(entries)]
                  IN  /\ after.downloads = rnode.downloads
                      /\ after.dpm =
                           calculate_dpm(rnode.downloads, rnode.created_at, clock)
             ELSE /\ after.downloads = 0
                  /\ after.dpm = Zero]_vars

\* A registry merge has been written in which a record taken from the
\* Manager's list got the count and a dpm of its registry entry, and another
\* one, without an entry, got 0.
C15_Witness ==
  /\ pc = "reg_done"
  /\ \E i, j \in DOMAIN nodes_json.nodes :
       /\ nodes_json.nodes[i].reference = Url_FooBarGit
       /\ nodes_json.nodes[i].downloads = R_foobar.downloads
       /\ nodes_json.nodes[i].dpm # Zero
       /\ nodes_json.nodes[j].reference = Url_Dotted
       /\ C15_Entries(normalize_repo_url(Url_Dotted)) = {}
       /\ nodes_json.nodes[j].downloads = 0

\* The names submitted in the step
C16_SentNow == SubSeq(gs_sent', Len(gs_sent) + 1, Len(gs_sent'))

\* What the calls of the step returned, each "RATE_LIMITED" after its wait
C16_GotNow == SubSeq(gs_results', Len(gs_results) + 1, Len(gs_results'))

\* C16: in a turn of the summary loop the item is submitted once, or, when
\* and only when the first call is rate limited (and has waited), a second
\* time and no more; when the second call is rate limited as well, the turn
\* counts one error, writes no cache entry and the loop goes on with the
\* next item.  No item is submitted more than twice in a run.
C16_RetryOnce ==
  /\ [][pc = "gs_items" /\ gs_i' = gs_i + 1 =>
          LET name == repos_to_process[gs_i + 1].name
              got == C16_GotNow
          IN  /\ Len(got) \in {1, 2}
              /\ C16_SentNow = [c \in DOMAIN got |-> name]
              /\ Len(got) = 2 <=> got[1] = "RATE_LIMITED"
              /\ got[Len(got)] = "RATE_LIMITED" =>
                   /\ gs_errors' = gs_errors + 1
                   /\ summaries_cache' = summaries_cache
                   /\ summaries_file' = summaries_file
                   /\ pc' = "gs_items"
                   /\ repos_to_process' = repos_to_process]_vars
  /\ [](\A i \in DOMAIN repos_to_process :
          Cardinality({n \in DOMAIN gs_sent :
                        gs_sent[n] = repos_to_process[i].name}) <= 2)

\* A run in which an item was rate limited twice has gone on to the next
\* item, which was rate limited once and then summarised.
C16_Witness ==
  /\ pc = "gs_items"
  /\ gs_i = 2
  /\ gs_results = <<"RATE_LIMITED", "RATE_LIMITED", "RATE_LIMITED", "dict">>
  /\ gs_errors = 1
  /\ Len(gs_sent) = 4
  /\ DictHas(summaries_cache, repos_to_process[2].name)
  /\ ~DictHas(summaries_cache, repos_to_process[1].name)

\* C17: once a call has returned the authentication error, on the first call
\* of an item or on its repeated call, the turn stores nothing, nothing more
\* is submitted in the run, and the cache file keeps every entry written
\* before: the file is as it was before the failing turn and holds all that
\* the run stored.
C17_AuthAbort ==
  /\ [][/\ (pc = "gs_items" /\ gs_i' = gs_i + 1
              /\ gs_results'[Len(gs_results')] = "AUTH_ERROR") =>
             (/\ pc' = "gs_auth"
              /\ summaries_file' = summaries_file
              /\ summaries_cache' = summaries_cache)
        /\ pc = "gs_auth" =>
             (/\ pc' = "idle"
              /\ summaries_file' = summaries_file)]_vars
  /\ [](\A c \in DOMAIN gs_results :
          gs_results[c] = "AUTH_ERROR" =>
            /\ c = Len(gs_results)
            /\ pc = "gs_auth"
            /\ gs_sent[Len(gs_sent)] = repos_to_process[gs_i].name
            /\ \A i \in (gs_i + 1)..Len(repos_to_process) :
                 \A n \in DOMAIN gs_sent : gs_sent[n] # repos_to_process[i].name
            /\ (summaries_cache # gs_loaded =>
                  LoadCache(summaries_file) = summaries_cache))

\* A run has stopped on the authentication error that the repeated call of
\* its second item returned, after the first item was stored and with a
\* third item left.
C17_Witness ==
  /\ pc = "gs_auth"
  /\ gs_i = 2
  /\ Len(repos_to_process) = 3
  /\ gs_results = <<"dict", "RATE_LIMITED", "AUTH_ERROR">>
  /\ Len(gs_sent) = 3
  /\ summaries_cache # gs_loaded
  /\ DictHas(LoadCache(summaries_file), repos_to_process[1].name)

\* The batches the loop takes from the list, in order
C18_Batches(list, size) ==
  [b \in 1..((Len(list) + size - 1) \div size) |->
     BatchAt(list, (b - 1) * size, size)]

\* The list is in lexicographic order, no identity twice
C18_Ordered(list) ==
  \A i \in 1..(Len(list) - 1) : StrLess(list[i], list[i + 1])

\* Every identity of the list is in exactly one batch
C18_Partition(list, size) ==
  LET batches == C18_Batches(list, size)
  IN  \A p \in DOMAIN list :
        Cardinality({b \in DOMAIN batches :
                      \E k \in DOMAIN batches[b] : batches[b][k] = list[p]}) = 1

\* The stats fetcher's part of C18
C18_StatsBatches ==
  pc = "fd_fetch" =>
    /\ C18_Ordered(sorted_repos)
    /\ SeqToSet(sorted_repos) = DictKeySet(nodes_by_repo)
    /\ C18_Partition(sorted_repos, batch_size)

\* The README fetcher's part of C18
C18_ReadmeBatches ==
  pc = "rm_fetch" =>
    /\ C18_Ordered(repos_list)
    /\ C18_Partition(repos_list, GRAPHQL_BATCH_SIZE)

\* C18: the list the stats fetcher cuts into batches of 100 and the list
\* the README fetcher cuts into batches of 50 are in lexicographic order of
\* owner/name and every identity is in exactly one batch, so that the
\* batches depend on the set of identities alone, not on the order of the
\* records in nodes.json.
C18_DeterministicBatches == C18_StatsBatches /\ C18_ReadmeBatches

\* The metrics of a record for which nothing was fetched
C19_Defaults(node) ==
  /\ node.stars = 0
  /\ node.spm = Zero
  /\ node.lastUpdateTs = ZeroTs
  /\ node.createdAtTs = ZeroTs
  /\ node.monthsSinceUpdate = MaxMonths

\* The keys of the batches whose request failed
C19_Failed ==
  UNION {SeqToSet(fd_requests[r].batch) :
           r \in {q \in DOMAIN fd_requests : ~fd_requests[q].ok}}

C21_IsEntry(v) ==
  \/ v = NullEntry
  \/ /\ ~v.null
     /\ Len(v.text) > MinReadmeChars
     /\ Len(v.text) <= MAX_README_CHARS
     /\ \A i \in DOMAIN v.text : v.text[i] \in AllowedChars \cup {" "}

\* The repos of this run's requests that were answered
C21_Answered == rm_requested \ rm_failed

\* At every point of a fetch_readmes run, the repos that were not cached at
\* its start and have an entry are those of the answered requests, their
\* entries are null markers or sanitized texts, and the file holds no repo
\* of a failed request; at its end every repo of its list has been in a
\* request.
C21_EntryIffAnswered ==
  pc \in {"rm_fetch", "rm_done"} =>
    /\ rm_failed \subseteq rm_requested
    /\ rm_requested \subseteq SeqToSet(repos_list)
    /\ \A name \in SeqToSet(repos_list) :
         /\ DictHas(readme_cache, name) <=> name \in C21_Answered
         /\ DictHas(readme_cache, name) =>
              C21_IsEntry(DictGet(readme_cache, name))
    /\ \A name \in rm_failed : ~DictHas(LoadCache(readmes_file), name)
    /\ pc = "rm_done" => rm_requested = SeqToSet(repos_list)

\* When fetch_readmes starts, the repos of the requests that failed in the
\* run before are in the list it is to fetch.
C21_FetchedAgain ==
  (pc = "idle" /\ pc' \in {"rm_fetch", "rm_cached"}) =>
    rm_failed \subseteq SeqToSet(repos_list')

\* C21: in a fetch_readmes run a repo receives a cache entry, a sanitized
\* text of more than 50 characters or the null marker, exactly when the
\* request of its batch was answered with data; the repos of a failed
\* request stay absent from the cache, in memory and in the file, and are in
\* a request again in the next run.
C21_BatchOutcome ==
  /\ []C21_EntryIffAnswered
  /\ [][C21_FetchedAgain]_vars

\* A run that started with the entries of an earlier answered batch has ended
\* with a failed request and with an answered one that gave a text.
C21_Witness ==
  /\ pc = "rm_done"
  /\ Len(rm_loaded) >= GRAPHQL_BATCH_SIZE
  /\ rm_failed # {}
  /\ \E name \in C21_Answered : ~DictGet(readme_cache, name).null
  /\ \A name \in rm_failed : ~DictHas(LoadCache(readmes_file), name)

\* The entries that the first n page requests gave, in order
RECURSIVE C22_Entries(_)
C22_Entries(n) ==
  IF n = 0 THEN <<>> ELSE C22_Entries(n - 1) \o reg_requests[n].nodes

\* The last page request failed
C22_Failed == reg_requests # <<>> /\ ~reg_requests[Len(reg_requests)].ok

\* The normalized keys of the entries the answered page requests gave
C22_FetchedKeys ==
  {normalize_repo_url(rnode.repository) :
     rnode \in SeqToSet(C22_Entries(Len(reg_requests)))} \ {NoKey}

\* A failed page request is the last one of the run, and all_nodes holds the
\* entries of the answered requests and no other.
C22_StopsPaging ==
  /\ \A n \in DOMAIN reg_requests :
       ~reg_requests[n].ok => n = Len(reg_requests) /\ pc # "reg_pages"
  /\ pc \in {"reg_pages", "reg_merge", "reg_done"} =>
       registry_nodes = C22_Entries(Len(reg_requests))

\* After a failed page request the merge writes the bundle, with downloads 0
\* and dpm 0 in every record the file held whose key no fetched entry has.
C22_MergeAfterFailure ==
  (pc = "reg_merge" /\ C22_Failed) =>
    /\ pc' = "reg_done"
    /\ nodes_json' = Bundle(existing_nodes')
    /\ Len(nodes_json'.nodes) >= Len(nodes_json.nodes)
    /\ \A i \in DOMAIN nodes_json.nodes :
         normalize_repo_url(nodes_json.nodes[i].reference) \notin C22_FetchedKeys
           => /\ nodes_json'.nodes[i].reference = nodes_json.nodes[i].reference
              /\ nodes_json'.nodes[i].downloads = 0
              /\ nodes_json'.nodes[i].dpm = Zero
    /\ Len(reg_requests) = 1 =>
         /\ Len(nodes_json'.nodes) = Len(nodes_json.nodes)
         /\ \A i \in DOMAIN nodes_json'.nodes :
              /\ nodes_json'.nodes[i].downloads = 0
              /\ nodes_json'.nodes[i].dpm = Zero

\* C22: when a page request of the registry fails, fetch_all_registry_nodes
\* sends no further request and returns the entries of the pages fetched
\* before; the merge then runs and writes the bundle, in which every record
\* the file held whose key is not among the fetched entries has downloads 0
\* and dpm 0: every record, when the first request failed.
C22_RegistryFailure ==
  /\ []C22_StopsPaging
  /\ [][C22_MergeAfterFailure]_vars

\* The first page was fetched and the request of the second failed; the
\* bundle written holds a record with the count of an entry of the first
\* page and a record with stars, without an entry, with downloads 0.
C22_Witness ==
  /\ pc = "reg_done"
  /\ C22_Failed
  /\ Len(reg_requests) = 2
  /\ \E i, j \in DOMAIN nodes_json.nodes :
       /\ nodes_json.nodes[i].reference = Url_NewPack
       /\ nodes_json.nodes[i].downloads = R_new.downloads
       /\ normalize_repo_url(nodes_json.nodes[j].reference) \notin C22_FetchedKeys
       /\ nodes_json.nodes[j].stars > 0
       /\ nodes_json.nodes[j].downloads = 0

====
